---- MODULE Spec2Model ----
(***************************************************************************)
(* Verification model of the RBAC admin backend: the Redis version         *)
(* counters (permission epoch, per-user token epoch), the permission       *)
(* cache, the optimistic-lock update protocol of the DAO layer, the        *)
(* binding tables and the auth session core.                               *)
(*                                                                         *)
(* One module, several specifications.  Each specification drives one      *)
(* group of handlers; the variables of the other groups keep their         *)
(* initial value.                                                          *)
(*   SpecAuth  login / refresh / logout / request authentication           *)
(*   SpecOcc   concurrent service calls that write user rows through       *)
(*             BaseDAO.update_with_version                                 *)
(*   SpecCfg   concurrent SystemConfigService.update_config calls          *)
(*   SpecMut   the mutations of RoleService, PermissionService and the     *)
(*             role bindings of UserService, with the epoch bump           *)
(*   SpecPerm  has_permission checks and the permission cache, next to     *)
(*             bind / unbind and create_permission                         *)
(*   SpecSess  guarded requests and logout of logged-in users, next to     *)
(*             bind_permissions                                            *)
(*   SpecDown  has_permission checks while cache backend calls fail        *)
(*   SpecBump  concurrent bump_perm_version and logout calls               *)
(*   SpecDel   soft_delete / restore and their bulk forms on one table     *)
(*   SpecAudit service operations wrapped by log_operation                 *)
(*   SpecRace  user_has_permissions call by call, next to key expiry and   *)
(*             invalidate_user_permissions                                 *)
(*   SpecBind  concurrent bind and unbind calls, the bind in two steps     *)
(*   SpecLogin concurrent logins, the login in two steps                   *)
(***************************************************************************)
EXTENDS Integers, FiniteSets, Sequences, TLC

VARIABLES
    now,          \* wall clock (datetime.now), in ticks
    users,        \* table users: id -> row
    userVersion,  \* Redis keys auth:ver:u:{id}: id -> integer or Nil (key absent)
    tokens,       \* every token pair minted so far, as decoded claims
    revoked,      \* history: tokens that were minted before a completed logout of their subject
    authResp,     \* history: outcome of the last auth handler
    procs,        \* in-flight service calls that write through update_with_version
    config,       \* table system_config: {1} -> the singleton row
    roles,        \* table roles: id -> row, for the ids in the table
    perms,        \* table permissions: id -> row, for the ids in the table
    rolePerms,    \* table role_permissions: a set of rows
    userRoles,    \* table user_roles: a set of rows
    permVersion,  \* Redis key rbac:perm:version: integer or Nil (key absent)
    permCache,    \* Redis set keys rbac:perm:v{E}:u:{U}: <<E, U>> -> codes
    emptyKeys,    \* Redis keys rbac:perm:v{E}:u:{U}:empty, as pairs <<E, U>>
    call,         \* the RBAC mutation whose write is done and that has not returned
    lastOp,       \* history: the last RBAC mutation that returned
    permResp,     \* history: the last has_permission answer
    opCount       \* number of handler calls made so far

authVars == <<now, users, userVersion, tokens, revoked, authResp>>

occVars == <<procs>>

rbacVars == <<roles, perms, rolePerms, userRoles, permVersion, permCache, emptyKeys,
             call, lastOp, permResp>>

nonRbacVars == <<now, users, userVersion, tokens, revoked, authResp, procs, config>>

nonAuthVars == <<procs, config, rbacVars>>

authVarsButUsers == <<now, userVersion, tokens, revoked, authResp>>

vars == <<now, users, userVersion, tokens, revoked, authResp, procs, config,
          roles, perms, rolePerms, userRoles, permVersion, permCache, emptyKeys,
          call, lastOp, permResp, opCount>>

----------------------------------------------------------------------------
(* Bounds *)

NumUsers == 2
MaxTime == 2
MaxOps == 5
NumWriters == 2
MaxVersion == 1
NumPatches == 2
LoginMaxFailedAttempts == 2
LoginLockMinutes == 1
NumRoles == 2
NumPerms == 2
MaxCalls == 3
\* Cap on the calls of a run in which permission checks are mixed with
\* mutations (a check, two binds, a check).
MaxChecked == 4
\* Cap on the bump_perm_version and logout calls of a run.
MaxBumps == 4
\* Cap on the user_has_permissions calls of a run that are followed call by
\* call.
MaxRaceChecks == 3
\* Cap on the bind and unbind calls of a run (a bind that reads, a bind, an
\* unbind, and one more unbind after the first bind has written).
MaxBindCalls == 4

UserIds == 1..NumUsers

\* Python None / a Redis key that does not exist.
Nil == -1

----------------------------------------------------------------------------
(* Redis: the version counters of CacheManager and the keys of the         *)
(* permission cache                                                        *)

\* int(val) if val is not None else default
get_version(val, default) == IF val # Nil THEN val ELSE default

\* INCR: an absent key counts as 0, the result is stored and returned.
bump_version(val) == IF val = Nil THEN 1 ELSE val + 1

\* The codes Redis holds for no key at all.
EmptyCache == [k \in {} |-> {}]

\* _cache_key(user_id, version): rbac:perm:v{version}:u:{user_id}
cache_key(user_id, version) == <<version, user_id>>

\* _get_perm_version: get_version("rbac:perm:version", default=1)
get_perm_version == get_version(permVersion, 1)

\* The delete widened to the user's entries of every epoch
invalidate_user_permissions_all_epochs(user_id) ==
    [permCache |-> [k \in {x \in DOMAIN permCache : x[2] # user_id} |-> permCache[k]],
     emptyKeys |-> {x \in emptyKeys : x[2] # user_id}]

\* invalidate_user_permissions: delete(key, empty_key) at the current epoch
invalidate_user_permissions(user_id) ==
    LET key == cache_key(user_id, get_perm_version)
    IN  [permCache |-> [k \in DOMAIN permCache \ {key} |-> permCache[k]],
         emptyKeys |-> emptyKeys \ {key}]

----------------------------------------------------------------------------
(* Users *)

UserRow == [is_active : BOOLEAN, is_deleted : BOOLEAN, version : Nat,
            failed_attempts : Nat, locked_until : Int,
            nickname : Nat, password_hash : Nat, deleted_at : Int]

NewUser == [is_active |-> TRUE, is_deleted |-> FALSE, version |-> 0,
            failed_attempts |-> 0, locked_until |-> Nil,
            nickname |-> 0, password_hash |-> 0, deleted_at |-> Nil]

\* BaseDAO.alive().filter(id=...).first(): the row, unless soft-deleted.
IsAlive(row) == ~row.is_deleted

----------------------------------------------------------------------------
(* Auth session core: services/auth.py, core/dependencies.py *)

Token(sub, ver, typ) == [sub |-> sub, ver |-> ver, typ |-> typ]

TokenPair(sub, ver) == {Token(sub, ver, "access"), Token(sub, ver, "refresh")}

\* pw: whether the password a login presented verified ("none" for the
\* other requests).
NoResp == [op |-> "none", sub |-> 0, ver |-> 0, typ |-> "none", status |-> "none",
           pw |-> "none"]

Resp(op, t, status) ==
    [op |-> op, sub |-> t.sub, ver |-> t.ver, typ |-> t.typ, status |-> status,
     pw |-> "none"]

\* The answer of a login
LoginResp(t, status, pwOk) ==
    [Resp("login", t, status) EXCEPT !.pw = IF pwOk THEN "ok" ELSE "wrong"]

\* locked_until is set and lies in the past
IsLocked_flipped(row) == row.locked_until # Nil /\ row.locked_until < now

\* locked_until is set and lies in the future
IsLocked(row) == row.locked_until # Nil /\ row.locked_until > now

\* The lock set one attempt late: next_failed > max_attempts
LoginFailureRow_late(row) ==
    LET next_failed == row.failed_attempts + 1
    IN  IF next_failed > LoginMaxFailedAttempts
        THEN [row EXCEPT !.failed_attempts = 0,
                         !.locked_until = now + LoginLockMinutes]
        ELSE [row EXCEPT !.failed_attempts = next_failed,
                         !.locked_until = Nil]

\* AuthService.login, password failure branch: the row written by the
\* unconditional filter(id=...).update(...)
LoginFailureRow(row) ==
    LET next_failed == row.failed_attempts + 1
    IN  IF next_failed >= LoginMaxFailedAttempts
        THEN [row EXCEPT !.failed_attempts = 0,
                         !.locked_until = now + LoginLockMinutes]
        ELSE [row EXCEPT !.failed_attempts = next_failed,
                         !.locked_until = Nil]

\* AuthService.login
Login(u, pwOk) ==
    /\ opCount < MaxOps
    /\ opCount' = opCount + 1
    /\ LET row == users[u]
           t == Token(u, 0, "login")
       IN  IF ~IsAlive(row)
           THEN /\ authResp' = LoginResp(t, "unauthorized", pwOk)
                /\ UNCHANGED <<users, tokens>>
           ELSE IF ~row.is_active
           THEN /\ authResp' = LoginResp(t, "forbidden", pwOk)
                /\ UNCHANGED <<users, tokens>>
           ELSE IF IsLocked(row)
           THEN /\ authResp' = LoginResp(t, "forbidden", pwOk)
                /\ UNCHANGED <<users, tokens>>
           ELSE IF ~pwOk
           THEN /\ users' = [users EXCEPT ![u] = LoginFailureRow(row)]
                /\ authResp' = LoginResp(t,
                       IF users'[u].locked_until # Nil THEN "forbidden" ELSE "unauthorized",
                       pwOk)
                /\ UNCHANGED tokens
           ELSE LET ver == get_version(userVersion[u], 1)
                IN  /\ tokens' = tokens \cup TokenPair(u, ver)
                    /\ users' = [users EXCEPT ![u].failed_attempts = 0,
                                              ![u].locked_until = Nil]
                    /\ authResp' = LoginResp(Token(u, ver, "login"), "ok", pwOk)
    /\ UNCHANGED <<now, userVersion, revoked>>
    /\ UNCHANGED nonAuthVars

\* AuthService.refresh: the status it answers for a decoded token
RefreshStatus(t) ==
    IF t.typ # "refresh" THEN "unauthorized"
    ELSE IF t.ver # get_version(userVersion[t.sub], 1) THEN "unauthorized"
    ELSE IF ~IsAlive(users[t.sub]) \/ ~users[t.sub].is_active THEN "unauthorized"
    ELSE "ok"

\* A refresh that rotates: it bumps the user's token epoch and mints the new
\* pair under the bumped epoch
Refresh_rotating(t) ==
    /\ opCount < MaxOps
    /\ opCount' = opCount + 1
    /\ authResp' = Resp("refresh", t, RefreshStatus(t))
    /\ IF RefreshStatus(t) = "ok"
       THEN /\ userVersion' = [userVersion EXCEPT ![t.sub] = bump_version(@)]
            /\ tokens' = tokens \cup TokenPair(t.sub, get_version(userVersion'[t.sub], 1))
       ELSE UNCHANGED <<tokens, userVersion>>
    /\ UNCHANGED <<now, users, revoked>>
    /\ UNCHANGED nonAuthVars

\* AuthService.refresh
Refresh(t) ==
    /\ opCount < MaxOps
    /\ opCount' = opCount + 1
    /\ authResp' = Resp("refresh", t, RefreshStatus(t))
    /\ IF RefreshStatus(t) = "ok"
       THEN tokens' = tokens \cup TokenPair(t.sub, get_version(userVersion[t.sub], 1))
       ELSE UNCHANGED tokens
    /\ UNCHANGED <<now, users, userVersion, revoked>>
    /\ UNCHANGED nonAuthVars

\* get_current_user_id without the check of the typ claim
AuthStatus_any_kind(t) ==
    IF t.ver # get_version(userVersion[t.sub], 1) THEN "unauthorized"
    ELSE "ok"

\* get_current_user_id: the status the dependency answers for a decoded token
AuthStatus(t) ==
    IF t.typ # "access" THEN "unauthorized"
    ELSE IF t.ver # get_version(userVersion[t.sub], 1) THEN "unauthorized"
    ELSE "ok"

\* A request that only authenticates (get_current_user_id).
Authenticate(t) ==
    /\ opCount < MaxOps
    /\ opCount' = opCount + 1
    /\ authResp' = Resp("authenticate", t, AuthStatus(t))
    /\ UNCHANGED <<now, users, userVersion, tokens, revoked>>
    /\ UNCHANGED nonAuthVars

\* POST /logout: get_current_user_id, then AuthService.logout(actor_id)
Logout(t) ==
    /\ opCount < MaxOps
    /\ opCount' = opCount + 1
    /\ IF AuthStatus(t) # "ok"
       THEN /\ authResp' = Resp("logout", t, "unauthorized")
            /\ UNCHANGED <<userVersion, revoked, permCache, emptyKeys>>
       ELSE /\ userVersion' = [userVersion EXCEPT ![t.sub] = bump_version(@)]
            /\ revoked' = revoked \cup {x \in tokens : x.sub = t.sub}
            /\ permCache' = invalidate_user_permissions(t.sub).permCache
            /\ emptyKeys' = invalidate_user_permissions(t.sub).emptyKeys
            /\ authResp' = Resp("logout", t, "ok")
    /\ UNCHANGED <<now, users, tokens>>
    /\ UNCHANGED <<procs, config, roles, perms, rolePerms, userRoles, permVersion,
                   call, lastOp, permResp>>

\* UserService.disable_users -> UserDAO.disable_users
DisableUser(u) ==
    /\ opCount < MaxOps
    /\ opCount' = opCount + 1
    /\ IsAlive(users[u])
    /\ users' = [users EXCEPT ![u].is_active = FALSE]
    /\ authResp' = NoResp
    /\ UNCHANGED <<now, userVersion, tokens, revoked>>
    /\ UNCHANGED nonAuthVars

\* UserService.delete_user -> BaseDAO.soft_delete
DeleteUser(u) ==
    /\ opCount < MaxOps
    /\ opCount' = opCount + 1
    /\ IsAlive(users[u])
    /\ users' = [users EXCEPT ![u].is_deleted = TRUE, ![u].deleted_at = now]
    /\ authResp' = NoResp
    /\ UNCHANGED <<now, userVersion, tokens, revoked>>
    /\ UNCHANGED nonAuthVars

\* datetime.now() advances
Tick ==
    /\ now < MaxTime
    /\ now' = now + 1
    /\ UNCHANGED <<users, userVersion, tokens, revoked, authResp, opCount>>
    /\ UNCHANGED nonAuthVars

----------------------------------------------------------------------------
(* Optimistic concurrency: dao/base.py, services/user.py *)

Writers == 1..NumWriters

\* The id of a row that is not in the table.
MissingId == NumUsers + 1

\* update(**data): the row with the named columns overwritten
ApplyPatch(row, data) ==
    [f \in DOMAIN row |-> IF f \in DOMAIN data THEN data[f] ELSE row[f]]

\* WHERE id = ? only: the version is not part of the condition
update_with_version_unguarded(table, entity_id, version, data) ==
    IF entity_id \in DOMAIN table /\ IsAlive(table[entity_id])
    THEN [table |-> [table EXCEPT ![entity_id] =
                        [ApplyPatch(@, data) EXCEPT !.version = version + 1]],
          affected |-> 1]
    ELSE [table |-> table, affected |-> 0]

\* BaseDAO.update_with_version: one UPDATE statement
\*   SET data, version = version + 1 WHERE id = ? AND version = ? AND NOT is_deleted
\* (updated_at, a timestamp nothing reads, is left out)
update_with_version(table, entity_id, version, data) ==
    IF /\ entity_id \in DOMAIN table
       /\ IsAlive(table[entity_id])
       /\ table[entity_id].version = version
    THEN [table |-> [table EXCEPT ![entity_id] =
                        [ApplyPatch(@, data) EXCEPT !.version = version + 1]],
          affected |-> 1]
    ELSE [table |-> table, affected |-> 0]

\* BaseDAO.get_by_id: the alive row, or None (the empty set)
get_by_id(table, entity_id) ==
    IF entity_id \in DOMAIN table /\ IsAlive(table[entity_id])
    THEN {table[entity_id]} ELSE {}

IdleProc == [pc |-> "idle", op |-> "none", id |-> 0, version |-> 0, inst |-> Nil,
             data |-> <<>>, affected |-> Nil, seen |-> Nil, status |-> "none"]

\* The update_with_version call of writer w, executed on the current table:
\* the table after it, and the writer's record with what it saw and got.
ExecUpdate(w, op, entity_id, version, data, checked) ==
    LET r == update_with_version(users, entity_id, version, data)
    IN  /\ users' = r.table
        /\ procs' = [procs EXCEPT ![w] =
               [pc |-> "done", op |-> op, id |-> entity_id, version |-> version,
                inst |-> Nil, data |-> data, affected |-> r.affected,
                seen |-> IF get_by_id(users, entity_id) = {} THEN Nil
                         ELSE users[entity_id].version,
                status |-> IF checked /\ r.affected = 0 THEN "conflict" ELSE "ok"]]

\* A handler that ends before any write.
Reject(w, op, entity_id, status) ==
    /\ procs' = [procs EXCEPT ![w] = [IdleProc EXCEPT !.pc = "done", !.op = op,
                                         !.id = entity_id, !.status = status]]
    /\ UNCHANGED users

\* First half of the handlers that read the row before they write it:
\* user = get_by_id(user_id), the version they will send is user.version.
ReadRow(w, op, entity_id, data) ==
    IF get_by_id(users, entity_id) = {}
    THEN Reject(w, op, entity_id, "not_found")
    ELSE /\ procs' = [procs EXCEPT ![w] = [IdleProc EXCEPT !.pc = "read", !.op = op,
                         !.id = entity_id, !.version = users[entity_id].version,
                         !.data = data]]
         /\ UNCHANGED users

\* UserService.update_user (the version comes from the client)
UpdateUser(w, u, version, data) ==
    /\ procs[w].pc = "idle"
    /\ ExecUpdate(w, "update_user", u, version, data, TRUE)
    /\ UNCHANGED <<opCount, config, authVarsButUsers, rbacVars>>

\* UserService.admin_change_password, up to the password policy check
AdminChangePasswordRead(w, u, hashed, valid) ==
    /\ procs[w].pc = "idle"
    /\ IF ~valid THEN Reject(w, "admin_change_password", u, "conflict")
       ELSE ReadRow(w, "admin_change_password", u, [password_hash |-> hashed])
    /\ UNCHANGED <<opCount, config, authVarsButUsers, rbacVars>>

\* UserService.admin_change_password, the write and the check of its count
AdminChangePasswordWrite(w) ==
    /\ procs[w].pc = "read" /\ procs[w].op = "admin_change_password"
    /\ ExecUpdate(w, procs[w].op, procs[w].id, procs[w].version, procs[w].data, TRUE)
    /\ UNCHANGED <<opCount, config, authVarsButUsers, rbacVars>>

\* UserService.self_change_password, up to the password policy check
SelfChangePasswordRead(w, u, hashed, valid) ==
    /\ procs[w].pc = "idle"
    /\ IF get_by_id(users, u) = {} THEN Reject(w, "self_change_password", u, "not_found")
       ELSE IF ~valid THEN Reject(w, "self_change_password", u, "conflict")
       ELSE ReadRow(w, "self_change_password", u, [password_hash |-> hashed])
    /\ UNCHANGED <<opCount, config, authVarsButUsers, rbacVars>>

\* UserService.self_change_password, the write; its count is dropped
SelfChangePasswordWrite(w) ==
    /\ procs[w].pc = "read" /\ procs[w].op = "self_change_password"
    /\ ExecUpdate(w, procs[w].op, procs[w].id, procs[w].version, procs[w].data, FALSE)
    /\ UNCHANGED <<opCount, config, authVarsButUsers, rbacVars>>

\* UserService.unlock_user, the read
UnlockUserRead(w, u) ==
    /\ procs[w].pc = "idle"
    /\ ReadRow(w, "unlock_user", u, [failed_attempts |-> 0, locked_until |-> Nil])
    /\ UNCHANGED <<opCount, config, authVarsButUsers, rbacVars>>

\* UserService.unlock_user, the write; its count is dropped
UnlockUserWrite(w) ==
    /\ procs[w].pc = "read" /\ procs[w].op = "unlock_user"
    /\ ExecUpdate(w, procs[w].op, procs[w].id, procs[w].version, procs[w].data, FALSE)
    /\ UNCHANGED <<opCount, config, authVarsButUsers, rbacVars>>

\* UserService.delete_user(hard=False) -> BaseDAO.soft_delete
SoftDeleteUser(u) ==
    /\ IsAlive(users[u])
    /\ users' = [users EXCEPT ![u].is_deleted = TRUE, ![u].deleted_at = now]
    /\ UNCHANGED <<procs, opCount, config, authVarsButUsers, rbacVars>>

----------------------------------------------------------------------------
(* System configuration: services/system_config.py, dao/system_config.py *)

\* The singleton row (id = 1) as SystemConfigDAO.get_singleton creates it.
NewConfig == [is_deleted |-> FALSE, version |-> 0,
              default_page_size |-> 0, login_lock_minutes |-> 0]

\* SystemConfigService.update_config up to its version check:
\*   to_update empty -> nothing is written and the config is returned;
\*   m = get_singleton(); m.version != payload.version -> Conflict.
UpdateConfigCheck(w, version, data) ==
    /\ procs[w].pc = "idle"
    /\ LET req == [IdleProc EXCEPT !.op = "update_config", !.id = 1,
                                   !.version = version, !.data = data]
       IN  procs' = [procs EXCEPT ![w] =
             IF DOMAIN data = {} THEN [req EXCEPT !.pc = "done", !.status = "ok"]
             ELSE IF config[1].version # version
                  THEN [req EXCEPT !.pc = "done", !.status = "conflict"]
                  ELSE [req EXCEPT !.pc = "checked"]]
    /\ UNCHANGED <<config, users, opCount, authVarsButUsers, rbacVars>>

\* SystemConfigDAO.update_partial: inst = get_singleton()
UpdateConfigRead(w) ==
    /\ procs[w].pc = "checked"
    /\ procs' = [procs EXCEPT ![w].pc = "read", ![w].inst = config[1].version]
    /\ UNCHANGED <<config, users, opCount, authVarsButUsers, rbacVars>>

\* SystemConfigDAO.update_partial: update_with_version(inst.id, inst.version, data),
\* Conflict when no row was affected
UpdateConfigWrite(w) ==
    /\ procs[w].pc = "read" /\ procs[w].op = "update_config"
    /\ LET r == update_with_version(config, 1, procs[w].inst, procs[w].data)
       IN  /\ config' = r.table
           /\ procs' = [procs EXCEPT ![w].pc = "done",
                                     ![w].affected = r.affected,
                                     ![w].seen = config[1].version,
                                     ![w].status = IF r.affected = 0 THEN "conflict" ELSE "ok"]
    /\ UNCHANGED <<users, opCount, authVarsButUsers, rbacVars>>

----------------------------------------------------------------------------
(* RBAC tables: models/role.py, models/permission.py,                      *)
(* models/role_permission.py, models/user_role.py                          *)

RoleIds == 1..NumRoles

PermIds == 1..NumPerms

RoleCodes == {"super_admin", "admin"}

PermCodes == {"user:list", "role:list"}

\* A set of ids as a request body carries it: not empty, no duplicates.
IdLists(S) == SUBSET S \ {{}}

\* A Role or Permission row with the BaseModel defaults.
NewEntity(code) == [is_active |-> TRUE, is_deleted |-> FALSE, version |-> 0,
                    code |-> code, description |-> 0, deleted_at |-> Nil]

\* A role_permissions row; unique_together (role, permission, is_deleted)
\* makes the table a set of such rows.
RolePermission(role_id, permission_id) ==
    [role_id |-> role_id, permission_id |-> permission_id, is_deleted |-> FALSE]

\* A user_roles row; unique_together (user, role, is_deleted).
UserRole(user_id, role_id) ==
    [user_id |-> user_id, role_id |-> role_id, is_deleted |-> FALSE]

\* The four RBAC tables as one value.
Db == [roles |-> roles, perms |-> perms, rolePerms |-> rolePerms, userRoles |-> userRoles]

\* on_delete=CASCADE: binding rows go with the role / permission they name.
Cascade(db) ==
    [db EXCEPT !.rolePerms = {x \in @ : x.role_id \in DOMAIN db.roles
                                        /\ x.permission_id \in DOMAIN db.perms},
               !.userRoles = {x \in @ : x.role_id \in DOMAIN db.roles}]

----------------------------------------------------------------------------
(* DAO layer: dao/base.py, dao/role.py, dao/permission.py *)

\* Model.create: the id the table's sequence hands out.
NextId(table, Ids) ==
    CHOOSE i \in Ids \ DOMAIN table : \A j \in Ids \ DOMAIN table : i <= j

\* BaseDAO.create
create(table, entity_id, row) ==
    [i \in DOMAIN table \cup {entity_id} |-> IF i = entity_id THEN row ELSE table[i]]

\* BaseDAO.exists(code=...): an alive row carries the code
exists(table, code) == \E i \in DOMAIN table : IsAlive(table[i]) /\ table[i].code = code

\* unique_together (code, is_deleted) of roles and permissions
UniqueCodes(table) ==
    \A i, j \in DOMAIN table :
        (i # j /\ table[i].code = table[j].code) => table[i].is_deleted # table[j].is_deleted

\* BaseDAO.bulk_soft_delete: one UPDATE ... SET is_deleted, deleted_at WHERE
\* id IN ids AND NOT is_deleted; it fails as a whole on the unique constraint.
bulk_soft_delete(table, ids) ==
    LET hit == {i \in DOMAIN table \cap ids : IsAlive(table[i])}
        t == [i \in DOMAIN table |->
                 IF i \in hit THEN [table[i] EXCEPT !.is_deleted = TRUE, !.deleted_at = now]
                 ELSE table[i]]
    IN  IF UniqueCodes(t)
        THEN [table |-> t, affected |-> Cardinality(hit), status |-> "ok"]
        ELSE [table |-> table, affected |-> 0, status |-> "integrity_error"]

\* BaseDAO.soft_delete
soft_delete(table, entity_id) == bulk_soft_delete(table, {entity_id})

\* The restore that un-deletes the row and leaves its deleted_at as it was
bulk_restore_keeps_deleted_at(table, ids) ==
    LET hit == {i \in DOMAIN table \cap ids : ~IsAlive(table[i])}
        t == [i \in DOMAIN table |->
                 IF i \in hit THEN [table[i] EXCEPT !.is_deleted = FALSE] ELSE table[i]]
    IN  IF UniqueCodes(t)
        THEN [table |-> t, affected |-> Cardinality(hit), status |-> "ok"]
        ELSE [table |-> table, affected |-> 0, status |-> "integrity_error"]

\* BaseDAO.bulk_restore: one UPDATE ... SET is_deleted = False, deleted_at =
\* None WHERE id IN ids AND is_deleted; it fails as a whole on the unique
\* constraint.
bulk_restore(table, ids) ==
    LET hit == {i \in DOMAIN table \cap ids : ~IsAlive(table[i])}
        t == [i \in DOMAIN table |->
                 IF i \in hit THEN [table[i] EXCEPT !.is_deleted = FALSE, !.deleted_at = Nil]
                 ELSE table[i]]
    IN  IF UniqueCodes(t)
        THEN [table |-> t, affected |-> Cardinality(hit), status |-> "ok"]
        ELSE [table |-> table, affected |-> 0, status |-> "integrity_error"]

\* BaseDAO.restore (the name restore is taken by the rows a bind un-deletes)
restore_by_id(table, entity_id) == bulk_restore(table, {entity_id})

\* BaseDAO.hard_delete, and the loops over it in bulk_hard_delete_roles /
\* bulk_hard_delete_permissions
hard_delete(table, ids) ==
    [table |-> [i \in DOMAIN table \ ids |-> table[i]],
     affected |-> Cardinality(DOMAIN table \cap ids), status |-> "ok"]

\* RoleDAO.disable_roles: alive().filter(id__in=ids).update(is_active=False)
disable_roles(table, role_ids) ==
    LET hit == {i \in DOMAIN table \cap role_ids : IsAlive(table[i])}
    IN  [table |-> [i \in DOMAIN table |->
                       IF i \in hit THEN [table[i] EXCEPT !.is_active = FALSE] ELSE table[i]],
         affected |-> Cardinality(hit), status |-> "ok"]

\* PermissionDAO.disable_permissions
disable_permissions(table, perm_ids) ==
    LET hit == {i \in DOMAIN table \cap perm_ids : IsAlive(table[i])}
    IN  [table |-> [i \in DOMAIN table |->
                       IF i \in hit THEN [table[i] EXCEPT !.is_active = FALSE] ELSE table[i]],
         affected |-> Cardinality(hit), status |-> "ok"]

----------------------------------------------------------------------------
(* Binding DAOs: dao/role_permission.py, dao/user_role.py *)

NoStats == [added |-> 0, restored |-> 0, existed |-> 0]

\* The transaction of a bind: un-delete the rows to restore, insert the rows
\* to create.  A row that would repeat (pair, is_deleted) of another row, or
\* that names a role / permission that is not in its table, fails its
\* statement and the transaction rolls back.
BindWrite(table, restore, created, fkOk, existed) ==
    LET restored == {[x EXCEPT !.is_deleted = FALSE] : x \in restore}
        kept == table \ restore
    IN  IF fkOk /\ restored \cap kept = {} /\ created \cap (kept \cup restored) = {}
        THEN [table |-> kept \cup restored \cup created, status |-> "ok",
              stats |-> [added |-> Cardinality(created),
                         restored |-> Cardinality(restore),
                         existed |-> existed]]
        ELSE [table |-> table, status |-> "integrity_error", stats |-> NoStats]

\* The UPDATE of an unbind: the alive rows hit become soft-deleted, unless a
\* soft-deleted row of the same pair is already there (unique constraint).
UnbindWrite(table, hit) ==
    LET gone == {[x EXCEPT !.is_deleted = TRUE] : x \in hit}
    IN  IF gone \cap table = {}
        THEN [table |-> (table \ hit) \cup gone, affected |-> Cardinality(hit),
              status |-> "ok"]
        ELSE [table |-> table, affected |-> 0, status |-> "integrity_error"]

\* RolePermissionDAO.bind_permissions
bind_permissions(table, role_id, permission_ids) ==
    LET existing == {x \in table : x.role_id = role_id /\ x.permission_id \in permission_ids}
        restore == {x \in existing : x.is_deleted}
        existed_active == {x.permission_id : x \in {y \in existing : ~y.is_deleted}}
        to_create == {pid \in permission_ids :
                         pid \notin existed_active
                         /\ \A x \in existing : x.permission_id # pid}
    IN  BindWrite(table, restore, {RolePermission(role_id, pid) : pid \in to_create},
                  to_create = {} \/ (role_id \in DOMAIN roles /\ to_create \subseteq DOMAIN perms),
                  Cardinality(existed_active))

\* RolePermissionDAO.bind_permissions_to_roles (exist_map holds one row per
\* pair)
bind_permissions_to_roles(table, role_ids, permission_ids) ==
    LET targets == role_ids \X permission_ids
        existing == {x \in table : x.role_id \in role_ids /\ x.permission_id \in permission_ids}
        to_restore == {x \in existing : x.is_deleted}
        to_create == {t \in targets :
                         \A x \in existing : <<x.role_id, x.permission_id>> # t}
    IN  BindWrite(table, to_restore, {RolePermission(t[1], t[2]) : t \in to_create},
                  \A t \in to_create : t[1] \in DOMAIN roles /\ t[2] \in DOMAIN perms,
                  Cardinality({x \in existing : ~x.is_deleted}))

\* RolePermissionDAO.unbind_permissions_from_roles
unbind_permissions_from_roles(table, role_ids, permission_ids) ==
    UnbindWrite(table, {x \in table : /\ ~x.is_deleted
                                      /\ x.role_id \in role_ids
                                      /\ x.permission_id \in permission_ids})

\* UserRoleDAO.bind_roles.  The rows come from filter(...).all() with the
\* relation `role` not fetched: x.role is then an awaitable query object, not
\* a Role, and reading x.role.id raises AttributeError.  Line 41 reads it for
\* every alive row of `existing`, line 43 for every row: the call raises
\* before its transaction whenever `existing` is not empty.
bind_roles(table, user_id, role_ids) ==
    LET existing == {x \in table : x.user_id = user_id /\ x.role_id \in role_ids}
    IN  IF existing # {}
        THEN [table |-> table, status |-> "attribute_error", stats |-> NoStats]
        ELSE BindWrite(table, {}, {UserRole(user_id, rid) : rid \in role_ids},
                       user_id \in DOMAIN users /\ role_ids \subseteq DOMAIN roles, 0)

\* UserRoleDAO.bind_roles_to_users: line 90 reads x.user.id and x.role.id of
\* every row of `existing`.
bind_roles_to_users(table, user_ids, role_ids) ==
    LET existing == {x \in table : x.user_id \in user_ids /\ x.role_id \in role_ids}
    IN  IF existing # {}
        THEN [table |-> table, status |-> "attribute_error", stats |-> NoStats]
        ELSE BindWrite(table, {}, {UserRole(t[1], t[2]) : t \in user_ids \X role_ids},
                       user_ids \subseteq DOMAIN users /\ role_ids \subseteq DOMAIN roles, 0)

\* UserRoleDAO.unbind_roles
unbind_roles(table, user_id, role_ids) ==
    UnbindWrite(table, {x \in table : /\ ~x.is_deleted
                                      /\ x.user_id = user_id
                                      /\ x.role_id \in role_ids})

\* UserRoleDAO.unbind_roles_from_users
unbind_roles_from_users(table, user_ids, role_ids) ==
    UnbindWrite(table, {x \in table : /\ ~x.is_deleted
                                      /\ x.user_id \in user_ids
                                      /\ x.role_id \in role_ids})

----------------------------------------------------------------------------
(* Permission epoch and permission cache: core/permissions.py *)

\* _load_user_permissions_from_db
load_user_permissions_from_db(user_id) ==
    LET role_ids == {x.role_id : x \in {y \in userRoles : y.user_id = user_id /\ ~y.is_deleted}}
        super_role == {r \in DOMAIN roles : IsAlive(roles[r]) /\ roles[r].code = "super_admin"}
        perm_ids == {x.permission_id :
                        x \in {y \in rolePerms : y.role_id \in role_ids /\ ~y.is_deleted}}
    IN  IF role_ids = {} THEN {}
        ELSE IF super_role \cap role_ids # {} THEN {"__ALL__"}
        ELSE {perms[p].code : p \in {q \in perm_ids \cap DOMAIN perms : IsAlive(perms[q])}}

\* user_has_permissions without the write of the :empty marker
user_has_permissions_no_marker(user_id, required) ==
    LET key == cache_key(user_id, get_perm_version)
        loaded == load_user_permissions_from_db(user_id)
    IN  IF key \in DOMAIN permCache
        THEN [allowed |-> required \subseteq permCache[key], path |-> "hit", loads |-> 0,
              permCache |-> permCache, emptyKeys |-> emptyKeys]
        ELSE IF key \in emptyKeys
        THEN [allowed |-> FALSE, path |-> "empty", loads |-> 0,
              permCache |-> permCache, emptyKeys |-> emptyKeys]
        ELSE IF loaded # {}
        THEN [allowed |-> required \subseteq loaded, path |-> "miss", loads |-> 1,
              permCache |-> [k \in DOMAIN permCache \cup {key} |->
                                IF k = key THEN loaded ELSE permCache[k]],
              emptyKeys |-> emptyKeys]
        ELSE [allowed |-> required \subseteq {}, path |-> "miss", loads |-> 1,
              permCache |-> permCache, emptyKeys |-> emptyKeys]

\* user_has_permissions: the answer, the cache after the call, the branch
\* taken ("hit": the set key exists, "empty": the :empty marker exists,
\* "miss": resolved from the tables) and the number of calls of
\* _load_user_permissions_from_db it made.
user_has_permissions(user_id, required) ==
    LET key == cache_key(user_id, get_perm_version)
        loaded == load_user_permissions_from_db(user_id)
    IN  IF key \in DOMAIN permCache
        THEN [allowed |-> required \subseteq permCache[key], path |-> "hit", loads |-> 0,
              permCache |-> permCache, emptyKeys |-> emptyKeys]
        ELSE IF key \in emptyKeys
        THEN [allowed |-> FALSE, path |-> "empty", loads |-> 0,
              permCache |-> permCache, emptyKeys |-> emptyKeys]
        ELSE IF loaded # {}
        THEN [allowed |-> required \subseteq loaded, path |-> "miss", loads |-> 1,
              permCache |-> [k \in DOMAIN permCache \cup {key} |->
                                IF k = key THEN loaded ELSE permCache[k]],
              emptyKeys |-> emptyKeys]
        ELSE [allowed |-> required \subseteq {}, path |-> "miss", loads |-> 1,
              permCache |-> permCache, emptyKeys |-> emptyKeys \cup {key}]

\* The user is alive and active and has an alive binding to the alive role
\* coded super_admin.
HoldsSuperAdmin(user_id) ==
    /\ IsAlive(users[user_id]) /\ users[user_id].is_active
    /\ \E x \in userRoles :
          /\ x.user_id = user_id /\ ~x.is_deleted
          /\ x.role_id \in DOMAIN roles
          /\ IsAlive(roles[x.role_id]) /\ roles[x.role_id].code = "super_admin"

\* What a later check remembers of the check before it.
NoPrev == [user |-> 0, code |-> "", status |-> "none", path |-> "none", epoch |-> Nil,
           noperms |-> FALSE, loads |-> 0]

NoPermResp == [op |-> "none", user |-> 0, code |-> "", status |-> "none", path |-> "none",
               fresh |-> FALSE, settled |-> FALSE, super |-> FALSE,
               epoch |-> Nil, noperms |-> FALSE, loads |-> 0,
               since |-> <<>>, expired |-> FALSE,
               prev |-> NoPrev, between |-> <<>>, expiredBetween |-> FALSE,
               failed |-> "none"]

\* The bind / unbind operations of RoleService and UserService
BindOps == {"bind_permissions", "bind_permissions_batch", "unbind_permissions",
            "unbind_permissions_batch", "bind_roles", "bind_roles_batch",
            "unbind_roles", "unbind_roles_batch"}

\* has_permission(code) for an authenticated user: Forbidden unless the user
\* is alive and active and user_has_permissions answers True.  The record
\* keeps, next to the answer, what the tables gave at the time of the call
\* (fresh), whether a bind / unbind that changed bindings had returned and no
\* mutation was in flight (settled), and whether the user held super_admin;
\* the epoch the check read, whether the tables gave the user no permission
\* at all (noperms), the resolver calls made (loads); the mutations that have
\* returned (since) and whether a cache key has expired (expired) after the
\* check; the check before it (prev) and what happened between the two.
PermRespOf(user_id, code) ==
    [NoPermResp EXCEPT !.op = "has_permission", !.user = user_id,
        !.code = code,
        !.fresh = ({code} \subseteq load_user_permissions_from_db(user_id)),
        !.settled = (call.op = "none" /\ lastOp.rebound),
        !.super = HoldsSuperAdmin(user_id),
        !.noperms = (load_user_permissions_from_db(user_id) = {}),
        !.prev = [f \in DOMAIN NoPrev |-> permResp[f]],
        !.between = permResp.since,
        !.expiredBetween = permResp.expired]

\* has_permission._checker without the check of the user row
CheckPermission_any_user(user_id, code) ==
    LET r == user_has_permissions(user_id, {code})
    IN  /\ permResp' = [PermRespOf(user_id, code) EXCEPT
                           !.path = r.path,
                           !.status = IF r.allowed THEN "ok" ELSE "forbidden",
                           !.epoch = get_perm_version,
                           !.loads = r.loads]
        /\ permCache' = r.permCache
        /\ emptyKeys' = r.emptyKeys

\* has_permission._checker
CheckPermission(user_id, code) ==
    LET r == user_has_permissions(user_id, {code})
    IN  IF ~IsAlive(users[user_id]) \/ ~users[user_id].is_active
        THEN /\ permResp' = [PermRespOf(user_id, code) EXCEPT !.status = "forbidden"]
             /\ UNCHANGED <<permCache, emptyKeys>>
        ELSE /\ permResp' = [PermRespOf(user_id, code) EXCEPT
                                !.path = r.path,
                                !.status = IF r.allowed THEN "ok" ELSE "forbidden",
                                !.epoch = get_perm_version,
                                !.loads = r.loads]
             /\ permCache' = r.permCache
             /\ emptyKeys' = r.emptyKeys

\* A permission check of a user who is authenticated.  Checks are capped by
\* MaxChecked, mutations by MaxCalls.
HasPermission(user_id, code) ==
    /\ opCount < MaxChecked
    /\ opCount' = opCount + 1
    /\ CheckPermission(user_id, code)
    /\ UNCHANGED <<roles, perms, rolePerms, userRoles, permVersion, call, lastOp>>
    /\ UNCHANGED nonRbacVars

\* A request to a route guarded by has_permission(code): get_current_user_id
\* on the bearer token, then the checker.
GuardedRequest(t, code) ==
    /\ opCount < MaxOps
    /\ opCount' = opCount + 1
    /\ IF AuthStatus(t) # "ok"
       THEN /\ authResp' = Resp("request", t, "unauthorized")
            /\ UNCHANGED <<permResp, permCache, emptyKeys>>
       ELSE /\ CheckPermission(t.sub, code)
            /\ authResp' = Resp("request", t, permResp'.status)
    /\ UNCHANGED <<now, users, userVersion, tokens, revoked>>
    /\ UNCHANGED <<procs, config, roles, perms, rolePerms, userRoles, permVersion,
                   call, lastOp>>

\* The cache backend calls of user_has_permissions, in the order it makes
\* them: get_version, exists(key), smembers(key), exists(empty_key), and the
\* write after a miss (sadd / set).
CacheCalls == {"get_version", "exists", "smembers", "exists_empty", "write"}

\* user_has_permissions when the cache call `fail` raises.  Only smembers is
\* inside a try: its error is swallowed, delete(key) is attempted (deleted
\* tells whether that call got through) and the set is taken as empty.  An
\* error of any other call leaves the function (raised).  reached tells
\* whether the control flow gets to the failing call at all.
user_has_permissions_cache_error(user_id, required, fail, deleted) ==
    LET key == cache_key(user_id, get_perm_version)
        hit == key \in DOMAIN permCache
        out(reached, raised, allowed, path, loads, cache) ==
            [reached |-> reached, raised |-> raised, allowed |-> allowed, path |-> path,
             loads |-> loads, permCache |-> cache, emptyKeys |-> emptyKeys]
    IN  IF fail \in {"get_version", "exists"}
        THEN out(TRUE, TRUE, FALSE, "none", 0, permCache)
        ELSE IF fail = "smembers"
        THEN out(hit, FALSE, required \subseteq {}, "hit", 0,
                 IF deleted THEN [k \in DOMAIN permCache \ {key} |-> permCache[k]]
                 ELSE permCache)
        ELSE IF fail = "exists_empty"
        THEN out(~hit, TRUE, FALSE, "none", 0, permCache)
        ELSE out(~hit /\ key \notin emptyKeys, TRUE, FALSE, "miss", 1, permCache)

\* has_permission._checker for a live user while a cache call fails: an
\* exception of user_has_permissions is not caught by the checker and the
\* request ends with an error.
HasPermissionCacheError(user_id, code, fail, deleted) ==
    LET r == user_has_permissions_cache_error(user_id, {code}, fail, deleted)
    IN  /\ opCount < MaxChecked
        /\ opCount' = opCount + 1
        /\ IsAlive(users[user_id]) /\ users[user_id].is_active
        /\ r.reached
        /\ permResp' = [PermRespOf(user_id, code) EXCEPT
                           !.failed = fail,
                           !.path = r.path,
                           !.status = IF r.raised THEN "error"
                                      ELSE IF r.allowed THEN "ok" ELSE "forbidden",
                           !.epoch = IF fail = "get_version" THEN Nil ELSE get_perm_version,
                           !.loads = r.loads]
        /\ permCache' = r.permCache
        /\ emptyKeys' = r.emptyKeys
        /\ UNCHANGED <<roles, perms, rolePerms, userRoles, permVersion, call, lastOp>>
        /\ UNCHANGED nonRbacVars

\* The TTL of a cache key runs out: 1800 s for a set key, 60 s for an
\* :empty marker.
ExpireKey(key, marker) ==
    /\ IF marker
       THEN /\ key \in emptyKeys
            /\ emptyKeys' = emptyKeys \ {key}
            /\ UNCHANGED permCache
       ELSE /\ key \in DOMAIN permCache
            /\ permCache' = [k \in DOMAIN permCache \ {key} |-> permCache[k]]
            /\ UNCHANGED emptyKeys
    /\ permResp' = IF permResp.op = "none" THEN permResp
                   ELSE [permResp EXCEPT !.expired = TRUE]
    /\ UNCHANGED <<roles, perms, rolePerms, userRoles, permVersion, call, lastOp, opCount>>
    /\ UNCHANGED nonRbacVars

----------------------------------------------------------------------------
(* Mutations: services/role.py, services/permission.py, services/user.py *)

NoCall == [op |-> "none", status |-> "none", changed |-> FALSE, bump |-> FALSE,
           stats |-> NoStats, pairs |-> 0, before |-> {}, after |-> {}, refsAlive |-> TRUE]

NoOp == [op |-> "none", status |-> "none", changed |-> FALSE, bumps |-> 0,
         stats |-> NoStats, pairs |-> 0, before |-> {}, after |-> {},
         epoch |-> Nil, prevMutEpoch |-> Nil, mutEpoch |-> Nil, rebound |-> FALSE,
         refsAlive |-> TRUE]

\* A service method up to the point where its write has committed or it has
\* raised: the tables become db; `bump` tells whether the control flow goes on
\* to bump_perm_version().  pairs is the number of binding pairs the call
\* names, before / after are the rows of these pairs as the call found and as
\* it left them; refsAlive tells whether every user, role and permission the
\* call names was in its table and not soft-deleted when the call began.
Enter(op, db, status, bump, stats, pairs, before, after, refsAlive) ==
    /\ call.op = "none"
    /\ opCount < MaxCalls
    /\ opCount' = opCount + 1
    /\ roles' = db.roles
    /\ perms' = db.perms
    /\ rolePerms' = db.rolePerms
    /\ userRoles' = db.userRoles
    /\ call' = [op |-> op, status |-> status, changed |-> (db # Db), bump |-> bump,
                stats |-> stats, pairs |-> pairs, before |-> before, after |-> after,
                refsAlive |-> refsAlive]
    /\ UNCHANGED <<permVersion, permCache, emptyKeys, lastOp, permResp>>
    /\ UNCHANGED nonRbacVars

\* A method that touches no binding row by name.
EnterPlain(op, db, status, bump) == Enter(op, db, status, bump, NoStats, 0, {}, {}, TRUE)

\* The rest of the service method: bump_perm_version() if the control flow
\* reaches it, then the return (or the exception leaves the method).
ReturnCall ==
    /\ call.op # "none"
    /\ permVersion' = IF call.bump THEN bump_version(permVersion) ELSE permVersion
    /\ LET mutated == call.status = "ok" /\ call.changed
           epoch == get_version(permVersion', 1)
       IN  lastOp' = [op |-> call.op, status |-> call.status, changed |-> call.changed,
                      bumps |-> IF call.bump THEN 1 ELSE 0,
                      stats |-> call.stats, pairs |-> call.pairs,
                      before |-> call.before, after |-> call.after,
                      epoch |-> epoch,
                      prevMutEpoch |-> lastOp.mutEpoch,
                      mutEpoch |-> IF mutated THEN epoch ELSE lastOp.mutEpoch,
                      rebound |-> lastOp.rebound \/ (mutated /\ call.op \in BindOps),
                      refsAlive |-> call.refsAlive]
    /\ call' = NoCall
    /\ permResp' = IF permResp.op = "none" THEN permResp
                   ELSE [permResp EXCEPT !.since = Append(@, [op |-> call.op,
                                              status |-> call.status,
                                              bumps |-> IF call.bump THEN 1 ELSE 0])]
    /\ UNCHANGED <<roles, perms, rolePerms, userRoles, permCache, emptyKeys, opCount>>
    /\ UNCHANGED nonRbacVars

\* RoleService.create_role (the name column behaves as the code column does)
CreateRole(code) ==
    IF exists(roles, code)
    THEN EnterPlain("create_role", Db, "conflict", FALSE)
    ELSE /\ RoleIds \ DOMAIN roles # {}
         /\ EnterPlain("create_role",
                [Db EXCEPT !.roles = create(@, NextId(roles, RoleIds), NewEntity(code))],
                "ok", FALSE)

\* RoleService.update_role
UpdateRole(role_id, version, data) ==
    IF DOMAIN data = {}
    THEN EnterPlain("update_role", Db, "ok", FALSE)
    ELSE LET u == update_with_version(roles, role_id, version, data)
         IN  EnterPlain("update_role", [Db EXCEPT !.roles = u.table],
                        IF u.affected = 0 THEN "conflict" ELSE "ok", FALSE)

\* RoleService.disable_roles
DisableRoles(ids) ==
    EnterPlain("disable_roles", [Db EXCEPT !.roles = disable_roles(@, ids).table], "ok", FALSE)

\* RoleService.delete_role
DeleteRole(role_id, hard) ==
    LET d == IF hard THEN hard_delete(roles, {role_id}) ELSE soft_delete(roles, role_id)
    IN  EnterPlain("delete_role", Cascade([Db EXCEPT !.roles = d.table]), d.status, FALSE)

\* RoleService.delete_roles
DeleteRoles(ids, hard) ==
    LET d == IF hard THEN hard_delete(roles, ids) ELSE bulk_soft_delete(roles, ids)
    IN  EnterPlain("delete_roles", Cascade([Db EXCEPT !.roles = d.table]), d.status, FALSE)

\* RoleService.bind_permissions
BindPermissions(role_id, target_ids) ==
    LET b == bind_permissions(rolePerms, role_id, target_ids)
        named(t) == {x \in t : x.role_id = role_id /\ x.permission_id \in target_ids}
    IN  IF get_by_id(roles, role_id) = {} \/ \E p \in target_ids : get_by_id(perms, p) = {}
        THEN Enter("bind_permissions", Db, "not_found", FALSE, NoStats,
                   Cardinality(target_ids), named(rolePerms), named(rolePerms), FALSE)
        ELSE Enter("bind_permissions", [Db EXCEPT !.rolePerms = b.table], b.status,
                   b.status = "ok", b.stats, Cardinality(target_ids),
                   named(rolePerms), named(b.table), TRUE)

\* RoleService.bind_permissions_batch
BindPermissionsBatch(role_ids, permission_ids) ==
    LET b == bind_permissions_to_roles(rolePerms, role_ids, permission_ids)
        named(t) == {x \in t : x.role_id \in role_ids /\ x.permission_id \in permission_ids}
    IN  Enter("bind_permissions_batch", [Db EXCEPT !.rolePerms = b.table], b.status,
              b.status = "ok", b.stats, Cardinality(role_ids \X permission_ids),
              named(rolePerms), named(b.table),
              /\ \A r \in role_ids : get_by_id(roles, r) # {}
              /\ \A q \in permission_ids : get_by_id(perms, q) # {})

\* RoleService.unbind_permissions
UnbindPermissions(role_id, target_ids) ==
    LET b == unbind_permissions_from_roles(rolePerms, {role_id}, target_ids)
        named(t) == {x \in t : x.role_id = role_id /\ x.permission_id \in target_ids}
    IN  Enter("unbind_permissions", [Db EXCEPT !.rolePerms = b.table], b.status,
              b.status = "ok" /\ b.affected # 0, NoStats, Cardinality(target_ids),
              named(rolePerms), named(b.table), TRUE)

\* RoleService.unbind_permissions_batch
UnbindPermissionsBatch(role_ids, permission_ids) ==
    LET b == unbind_permissions_from_roles(rolePerms, role_ids, permission_ids)
        named(t) == {x \in t : x.role_id \in role_ids /\ x.permission_id \in permission_ids}
    IN  Enter("unbind_permissions_batch", [Db EXCEPT !.rolePerms = b.table], b.status,
              b.status = "ok" /\ b.affected # 0, NoStats, Cardinality(role_ids \X permission_ids),
              named(rolePerms), named(b.table), TRUE)

\* PermissionService.create_permission
CreatePermission(code) ==
    IF exists(perms, code)
    THEN EnterPlain("create_permission", Db, "conflict", FALSE)
    ELSE /\ PermIds \ DOMAIN perms # {}
         /\ EnterPlain("create_permission",
                [Db EXCEPT !.perms = create(@, NextId(perms, PermIds), NewEntity(code))],
                "ok", TRUE)

\* PermissionService.update_permission
UpdatePermission(perm_id, version, data) ==
    IF DOMAIN data = {}
    THEN EnterPlain("update_permission", Db, "ok", FALSE)
    ELSE LET u == update_with_version(perms, perm_id, version, data)
         IN  EnterPlain("update_permission", [Db EXCEPT !.perms = u.table],
                        IF u.affected = 0 THEN "conflict" ELSE "ok", u.affected # 0)

\* PermissionService.disable_permissions
DisablePermissions(ids) ==
    LET d == disable_permissions(perms, ids)
    IN  EnterPlain("disable_permissions", [Db EXCEPT !.perms = d.table], "ok", d.affected # 0)

\* PermissionService.delete_permission
DeletePermission(perm_id, hard) ==
    LET d == IF hard THEN hard_delete(perms, {perm_id}) ELSE soft_delete(perms, perm_id)
    IN  EnterPlain("delete_permission", Cascade([Db EXCEPT !.perms = d.table]), d.status,
                   d.status = "ok" /\ d.affected # 0)

\* PermissionService.delete_permissions
DeletePermissions(ids, hard) ==
    LET d == IF hard THEN hard_delete(perms, ids) ELSE bulk_soft_delete(perms, ids)
    IN  EnterPlain("delete_permissions", Cascade([Db EXCEPT !.perms = d.table]), d.status,
                   d.status = "ok" /\ d.affected # 0)

\* UserService.bind_roles
BindRoles(user_id, role_ids) ==
    LET b == bind_roles(userRoles, user_id, role_ids)
        named(t) == {x \in t : x.user_id = user_id /\ x.role_id \in role_ids}
    IN  Enter("bind_roles", [Db EXCEPT !.userRoles = b.table], b.status,
              b.status = "ok", b.stats, Cardinality(role_ids),
              named(userRoles), named(b.table),
              /\ get_by_id(users, user_id) # {}
              /\ \A r \in role_ids : get_by_id(roles, r) # {})

\* UserService.bind_roles_batch
BindRolesBatch(user_ids, role_ids) ==
    LET b == bind_roles_to_users(userRoles, user_ids, role_ids)
        named(t) == {x \in t : x.user_id \in user_ids /\ x.role_id \in role_ids}
    IN  IF \/ \E u \in user_ids : get_by_id(users, u) = {}
           \/ \E r \in role_ids : get_by_id(roles, r) = {}
        THEN Enter("bind_roles_batch", Db, "not_found", FALSE, NoStats,
                   Cardinality(user_ids \X role_ids), named(userRoles), named(userRoles),
                   FALSE)
        ELSE Enter("bind_roles_batch", [Db EXCEPT !.userRoles = b.table], b.status,
                   b.status = "ok", b.stats, Cardinality(user_ids \X role_ids),
                   named(userRoles), named(b.table), TRUE)

\* UserService.unbind_roles
UnbindRoles(user_id, role_ids) ==
    LET b == unbind_roles(userRoles, user_id, role_ids)
        named(t) == {x \in t : x.user_id = user_id /\ x.role_id \in role_ids}
    IN  Enter("unbind_roles", [Db EXCEPT !.userRoles = b.table], b.status,
              b.status = "ok" /\ b.affected # 0, NoStats, Cardinality(role_ids),
              named(userRoles), named(b.table), TRUE)

\* UserService.unbind_roles_batch
UnbindRolesBatch(user_ids, role_ids) ==
    LET b == unbind_roles_from_users(userRoles, user_ids, role_ids)
        named(t) == {x \in t : x.user_id \in user_ids /\ x.role_id \in role_ids}
    IN  Enter("unbind_roles_batch", [Db EXCEPT !.userRoles = b.table], b.status,
              b.status = "ok" /\ b.affected # 0, NoStats, Cardinality(user_ids \X role_ids),
              named(userRoles), named(b.table), TRUE)

----------------------------------------------------------------------------
(* Specifications *)

\* The RBAC tables as init_db.seed_builtin leaves them: the roles super_admin
\* and admin, a permission bound to both, the superuser (user 1) bound to
\* super_admin; the cache empty.
InitRbac ==
    /\ roles = [r \in {1, 2} |-> NewEntity(IF r = 1 THEN "super_admin" ELSE "admin")]
    /\ perms = [p \in {1} |-> NewEntity("user:list")]
    /\ rolePerms = {RolePermission(1, 1), RolePermission(2, 1)}
    /\ userRoles = {UserRole(1, 1)}
    /\ permCache = EmptyCache
    /\ emptyKeys = {}
    /\ call = NoCall
    /\ lastOp = NoOp
    /\ permResp = NoPermResp

InitAuth ==
    /\ now = 0
    /\ users = [u \in UserIds |-> NewUser]
    /\ userVersion = [u \in UserIds |-> Nil]
    /\ tokens = {}
    /\ revoked = {}
    /\ authResp = NoResp
    /\ procs = [w \in Writers |-> IdleProc]
    /\ config = [i \in {1} |-> NewConfig]
    /\ InitRbac
    /\ permVersion = Nil
    /\ opCount = 0

NextAuth ==
    \/ \E u \in UserIds, pwOk \in BOOLEAN : Login(u, pwOk)
    \/ \E t \in tokens : Refresh(t)
    \/ \E t \in tokens : Authenticate(t)
    \/ \E t \in tokens : Logout(t)
    \/ \E t \in tokens, c \in PermCodes : GuardedRequest(t, c)
    \/ \E u \in UserIds : DisableUser(u)
    \/ \E u \in UserIds : DeleteUser(u)
    \/ Tick

SpecAuth == InitAuth /\ [][NextAuth]_vars

\* Rows as earlier requests may have left them: at any version up to
\* MaxVersion, with a failed login counted.
InitOcc ==
    /\ now = 0
    /\ \E v \in 0..MaxVersion :
          users = [u \in UserIds |-> [NewUser EXCEPT !.version = v, !.failed_attempts = 1]]
    /\ userVersion = [u \in UserIds |-> Nil]
    /\ tokens = {}
    /\ revoked = {}
    /\ authResp = NoResp
    /\ procs = [w \in Writers |-> IdleProc]
    /\ config = [i \in {1} |-> NewConfig]
    /\ InitRbac
    /\ permVersion = Nil
    /\ opCount = 0

NextOcc ==
    \/ \E w \in Writers, u \in UserIds \cup {MissingId}, v \in 0..MaxVersion + 1,
          n \in 1..NumPatches :
          UpdateUser(w, u, v, [nickname |-> n])
    \/ \E w \in Writers, u \in UserIds \cup {MissingId}, h \in 1..NumPatches, valid \in BOOLEAN :
          AdminChangePasswordRead(w, u, h, valid)
    \/ \E w \in Writers : AdminChangePasswordWrite(w)
    \/ \E w \in Writers, u \in UserIds \cup {MissingId}, h \in 1..NumPatches, valid \in BOOLEAN :
          SelfChangePasswordRead(w, u, h, valid)
    \/ \E w \in Writers : SelfChangePasswordWrite(w)
    \/ \E w \in Writers, u \in UserIds \cup {MissingId} : UnlockUserRead(w, u)
    \/ \E w \in Writers : UnlockUserWrite(w)
    \/ \E u \in UserIds : SoftDeleteUser(u)

SpecOcc == InitOcc /\ [][NextOcc]_vars

\* The singleton row at any version earlier updates may have left.
InitCfg ==
    /\ now = 0
    /\ users = [u \in UserIds |-> NewUser]
    /\ userVersion = [u \in UserIds |-> Nil]
    /\ tokens = {}
    /\ revoked = {}
    /\ authResp = NoResp
    /\ procs = [w \in Writers |-> IdleProc]
    /\ \E v \in 0..MaxVersion : config = [i \in {1} |-> [NewConfig EXCEPT !.version = v]]
    /\ InitRbac
    /\ permVersion = Nil
    /\ opCount = 0

ConfigPayloads ==
    {<<>>} \cup {[default_page_size |-> n] : n \in 1..NumPatches}
           \cup {[login_lock_minutes |-> n] : n \in 1..NumPatches}

NextCfg ==
    \/ \E w \in Writers, v \in 0..MaxVersion + 1, d \in ConfigPayloads :
          UpdateConfigCheck(w, v, d)
    \/ \E w \in Writers : UpdateConfigRead(w)
    \/ \E w \in Writers : UpdateConfigWrite(w)

SpecCfg == InitCfg /\ [][NextCfg]_vars

\* The epoch key as seed_builtin's bump left it, or absent (a Redis without
\* persistence that restarted).
InitMut ==
    /\ now = 0
    /\ users = [u \in UserIds |-> NewUser]
    /\ userVersion = [u \in UserIds |-> Nil]
    /\ tokens = {}
    /\ revoked = {}
    /\ authResp = NoResp
    /\ procs = [w \in Writers |-> IdleProc]
    /\ config = [i \in {1} |-> NewConfig]
    /\ InitRbac
    /\ permVersion \in {Nil, 1}
    /\ opCount = 0

EntityPayloads == {<<>>} \cup {[description |-> n] : n \in 1..NumPatches}

NextMut ==
    \/ \E c \in RoleCodes : CreateRole(c)
    \/ \E r \in RoleIds, v \in 0..MaxVersion, d \in EntityPayloads : UpdateRole(r, v, d)
    \/ \E ids \in IdLists(RoleIds) : DisableRoles(ids)
    \/ \E r \in RoleIds, hard \in BOOLEAN : DeleteRole(r, hard)
    \/ \E ids \in IdLists(RoleIds), hard \in BOOLEAN : DeleteRoles(ids, hard)
    \/ \E r \in RoleIds, ps \in IdLists(PermIds) : BindPermissions(r, ps)
    \/ \E rs \in IdLists(RoleIds), ps \in IdLists(PermIds) : BindPermissionsBatch(rs, ps)
    \/ \E r \in RoleIds, ps \in IdLists(PermIds) : UnbindPermissions(r, ps)
    \/ \E rs \in IdLists(RoleIds), ps \in IdLists(PermIds) : UnbindPermissionsBatch(rs, ps)
    \/ \E c \in PermCodes : CreatePermission(c)
    \/ \E p \in PermIds, v \in 0..MaxVersion, d \in EntityPayloads : UpdatePermission(p, v, d)
    \/ \E ids \in IdLists(PermIds) : DisablePermissions(ids)
    \/ \E p \in PermIds, hard \in BOOLEAN : DeletePermission(p, hard)
    \/ \E ids \in IdLists(PermIds), hard \in BOOLEAN : DeletePermissions(ids, hard)
    \/ \E u \in UserIds \cup {MissingId}, rs \in IdLists(RoleIds) : BindRoles(u, rs)
    \/ \E us \in IdLists(UserIds), rs \in IdLists(RoleIds) : BindRolesBatch(us, rs)
    \/ \E u \in UserIds, rs \in IdLists(RoleIds) : UnbindRoles(u, rs)
    \/ \E us \in IdLists(UserIds), rs \in IdLists(RoleIds) : UnbindRolesBatch(us, rs)
    \/ ReturnCall

SpecMut == InitMut /\ [][NextMut]_vars

InitPerm == InitMut

NextPerm ==
    \/ \E u \in UserIds, c \in PermCodes : HasPermission(u, c)
    \/ \E k \in DOMAIN permCache : ExpireKey(k, FALSE)
    \/ \E k \in emptyKeys : ExpireKey(k, TRUE)
    \/ \E r \in RoleIds, ps \in IdLists(PermIds) : BindPermissions(r, ps)
    \/ \E r \in RoleIds, ps \in IdLists(PermIds) : UnbindPermissions(r, ps)
    \/ \E u \in UserIds, rs \in IdLists(RoleIds) : BindRoles(u, rs)
    \/ \E u \in UserIds, rs \in IdLists(RoleIds) : UnbindRoles(u, rs)
    \/ \E c \in PermCodes : CreatePermission(c)
    \/ ReturnCall

SpecPerm == InitPerm /\ [][NextPerm]_vars

\* Sessions next to permission mutations: both users have logged in (their
\* token pairs embed the default epoch 1 of the absent per-user key).
InitSess ==
    /\ now = 0
    /\ users = [u \in UserIds |-> NewUser]
    /\ userVersion = [u \in UserIds |-> Nil]
    /\ tokens = UNION {TokenPair(u, get_version(Nil, 1)) : u \in UserIds}
    /\ revoked = {}
    /\ authResp = NoResp
    /\ procs = [w \in Writers |-> IdleProc]
    /\ config = [i \in {1} |-> NewConfig]
    /\ InitRbac
    /\ permVersion \in {Nil, 1}
    /\ opCount = 0

NextSess ==
    \/ \E t \in tokens, c \in PermCodes : GuardedRequest(t, c)
    \/ \E t \in tokens : Logout(t)
    \/ \E r \in RoleIds, ps \in IdLists(PermIds) : BindPermissions(r, ps)
    \/ ReturnCall

SpecSess == InitSess /\ [][NextSess]_vars

\* Permission checks while calls of the cache backend may fail, next to the
\* role bindings of users.
InitDown == InitMut

NextDown ==
    \/ \E u \in UserIds, c \in PermCodes : HasPermission(u, c)
    \/ \E u \in UserIds, c \in PermCodes, f \in CacheCalls, d \in BOOLEAN :
          HasPermissionCacheError(u, c, f, d)
    \/ \E u \in UserIds, rs \in IdLists(RoleIds) : BindRoles(u, rs)
    \/ \E u \in UserIds, rs \in IdLists(RoleIds) : UnbindRoles(u, rs)
    \/ ReturnCall

SpecDown == InitDown /\ [][NextDown]_vars

----------------------------------------------------------------------------
(* Concurrent bumps of the version counters: core/permissions.py,          *)
(* services/auth.py, utils/cache_manager.py                                *)

\* The counter keys: rbac:perm:version (PermKey) and auth:ver:u:{id}.
PermKey == 0

BumpKeys == {PermKey} \cup UserIds

\* What the key holds: an integer, or Nil when the key is absent.
CounterOf(perm, user, k) == IF k = PermKey THEN perm ELSE user[k]

\* A caller with no call in flight.  rets and count are history: the values
\* its bumps of each key returned and how many of them completed; seen is the
\* value of the key when the call began, raced tells whether another caller
\* had a bump of the same key in flight when this caller's INCR ran.
IdleBumper == [pc |-> "idle", op |-> "none", key |-> Nil, seen |-> Nil, raced |-> FALSE,
               rets |-> [k \in BumpKeys |-> {}], count |-> [k \in BumpKeys |-> 0]]

\* bump_perm_version() is called; nothing is read before the INCR.
BumpPermVersionCall(w) ==
    /\ opCount < MaxBumps
    /\ procs[w].pc = "idle"
    /\ opCount' = opCount + 1
    /\ procs' = [procs EXCEPT ![w] = [@ EXCEPT !.pc = "incr", !.op = "bump_perm_version",
                                                !.key = PermKey, !.seen = permVersion,
                                                !.raced = FALSE]]
    /\ UNCHANGED <<permVersion, userVersion, permCache, emptyKeys, revoked>>
    /\ UNCHANGED <<now, users, tokens, authResp, config, roles, perms, rolePerms,
                   userRoles, call, lastOp, permResp>>

\* AuthService.logout(user_id) is called.
LogoutCall(w, u) ==
    /\ opCount < MaxBumps
    /\ procs[w].pc = "idle"
    /\ opCount' = opCount + 1
    /\ procs' = [procs EXCEPT ![w] = [@ EXCEPT !.pc = "incr", !.op = "logout",
                                                !.key = u, !.seen = userVersion[u],
                                                !.raced = FALSE]]
    /\ UNCHANGED <<permVersion, userVersion, permCache, emptyKeys, revoked>>
    /\ UNCHANGED <<now, users, tokens, authResp, config, roles, perms, rolePerms,
                   userRoles, call, lastOp, permResp>>

\* The counter after caller w's write, and the value the write returns.
IncrStep(w, new) ==
    LET k == procs[w].key
    IN  /\ procs[w].pc = "incr"
        /\ permVersion' = IF k = PermKey THEN new ELSE permVersion
        /\ userVersion' = IF k = PermKey THEN userVersion
                          ELSE [userVersion EXCEPT ![k] = new]
        /\ procs' = [procs EXCEPT ![w] =
               [@ EXCEPT !.pc = IF procs[w].op = "logout" THEN "invalidate" ELSE "idle",
                         !.raced = \E x \in Writers \ {w} :
                                       procs[x].pc = "incr" /\ procs[x].key = k,
                         !.rets = [@ EXCEPT ![k] = @ \cup {new}],
                         !.count = [@ EXCEPT ![k] = @ + 1]]]
        /\ UNCHANGED <<permCache, emptyKeys, revoked, opCount>>
        /\ UNCHANGED <<now, users, tokens, authResp, config, roles, perms, rolePerms,
                       userRoles, call, lastOp, permResp>>

\* GET when the call begins, SET of that value plus one later
Incr_read_then_write(w) == IncrStep(w, bump_version(procs[w].seen))

\* CacheManager.bump_version: int(await client.incr(key)), one Redis command
Incr(w) == IncrStep(w, bump_version(CounterOf(permVersion, userVersion, procs[w].key)))

\* logout, after the bump: invalidate_user_permissions(user_id), then return.
LogoutInvalidate(w) ==
    /\ procs[w].pc = "invalidate"
    /\ permCache' = invalidate_user_permissions(procs[w].key).permCache
    /\ emptyKeys' = invalidate_user_permissions(procs[w].key).emptyKeys
    /\ revoked' = revoked \cup {x \in tokens : x.sub = procs[w].key}
    /\ procs' = [procs EXCEPT ![w] = [@ EXCEPT !.pc = "idle"]]
    /\ UNCHANGED <<permVersion, userVersion, opCount>>
    /\ UNCHANGED <<now, users, tokens, authResp, config, roles, perms, rolePerms,
                   userRoles, call, lastOp, permResp>>

\* The counters as earlier requests may have left them: absent or at 1.
InitBump ==
    /\ now = 0
    /\ users = [u \in UserIds |-> NewUser]
    /\ userVersion \in [UserIds -> {Nil, 1}]
    /\ tokens = {}
    /\ revoked = {}
    /\ authResp = NoResp
    /\ procs = [w \in Writers |-> IdleBumper]
    /\ config = [i \in {1} |-> NewConfig]
    /\ InitRbac
    /\ permVersion \in {Nil, 1}
    /\ opCount = 0

NextBump ==
    \/ \E w \in Writers : BumpPermVersionCall(w)
    \/ \E w \in Writers, u \in UserIds : LogoutCall(w, u)
    \/ \E w \in Writers : Incr(w)
    \/ \E w \in Writers : LogoutInvalidate(w)

SpecBump == InitBump /\ [][NextBump]_vars

----------------------------------------------------------------------------
(* Soft delete and restore through the DAO: dao/base.py, dao/permission.py *)

\* The ids a caller may pass: the ids of the table and one that no row has.
DaoIds == PermIds \cup {NumPerms + 1}

\* One call of a PermissionDAO method: the permissions table becomes
\* r.table; the history keeps the method, its ids, what it returned and the
\* table it found.
DaoCall(op, ids, r) ==
    /\ perms' = r.table
    /\ lastOp' = [op |-> op, ids |-> ids, affected |-> r.affected, status |-> r.status,
                  before |-> perms]
    /\ UNCHANGED <<roles, rolePerms, userRoles, permVersion, permCache, emptyKeys,
                   call, permResp, opCount>>
    /\ UNCHANGED nonRbacVars

\* PermissionDAO.delete_permission -> BaseDAO.soft_delete
SoftDeleteRow(i) == DaoCall("soft_delete", {i}, soft_delete(perms, i))

\* BaseDAO.restore
RestoreRow(i) == DaoCall("restore", {i}, restore_by_id(perms, i))

\* PermissionDAO.bulk_delete_permissions -> BaseDAO.bulk_soft_delete
BulkSoftDeleteRows(ids) == DaoCall("bulk_soft_delete", ids, bulk_soft_delete(perms, ids))

\* BaseDAO.bulk_restore
BulkRestoreRows(ids) == DaoCall("bulk_restore", ids, bulk_restore(perms, ids))

\* The permissions table as create / delete / create calls may have left it:
\* two alive rows, or an alive row next to a soft-deleted one of the same or
\* of another code.
InitDel ==
    /\ now = 0
    /\ users = [u \in UserIds |-> NewUser]
    /\ userVersion = [u \in UserIds |-> Nil]
    /\ tokens = {}
    /\ revoked = {}
    /\ authResp = NoResp
    /\ procs = [w \in Writers |-> IdleProc]
    /\ config = [i \in {1} |-> NewConfig]
    /\ roles = [r \in {1, 2} |-> NewEntity(IF r = 1 THEN "super_admin" ELSE "admin")]
    /\ \E c \in PermCodes, gone \in BOOLEAN :
          perms = [p \in {1, 2} |->
                      IF p = 1 THEN NewEntity("user:list")
                      ELSE IF gone
                           THEN [NewEntity(c) EXCEPT !.is_deleted = TRUE, !.deleted_at = 0]
                           ELSE NewEntity("role:list")]
    /\ rolePerms = {RolePermission(1, 1), RolePermission(2, 1)}
    /\ userRoles = {UserRole(1, 1)}
    /\ permCache = EmptyCache
    /\ emptyKeys = {}
    /\ call = NoCall
    /\ lastOp = [op |-> "none", ids |-> {}, affected |-> 0, status |-> "none",
                 before |-> perms]
    /\ permResp = NoPermResp
    /\ permVersion = Nil
    /\ opCount = 0

NextDel ==
    \/ \E i \in DaoIds : SoftDeleteRow(i)
    \/ \E i \in DaoIds : RestoreRow(i)
    \/ \E ids \in IdLists(DaoIds) : BulkSoftDeleteRows(ids)
    \/ \E ids \in IdLists(DaoIds) : BulkRestoreRows(ids)
    \/ Tick

SpecDel == InitDel /\ [][NextDel]_vars

----------------------------------------------------------------------------
(* Audited service operations: utils/audit.py, services/user.py *)

\* UserDAO.disable_users: alive().filter(id__in=ids).update(is_active=False)
disable_users(table, user_ids) ==
    LET hit == {i \in DOMAIN table \cap user_ids : IsAlive(table[i])}
    IN  [table |-> [i \in DOMAIN table |->
                       IF i \in hit THEN [table[i] EXCEPT !.is_active = FALSE] ELSE table[i]],
         affected |-> Cardinality(hit)]

\* How a call ends: it returns a value or raises an error.
NoOutcome == [kind |-> "none", value |-> Nil]

Returns(value) == [kind |-> "return", value |-> value]

Raises(error) == [kind |-> "raise", value |-> error]

\* A caller with no audited call in flight.  outcome is how the wrapped
\* function ended, final is how the wrapper ended; calls, attempts and rows
\* are history: the wrapper calls begun, the dao.write calls made and the
\* audit rows written by this caller.
IdleAudited == [pc |-> "idle", action |-> "none", outcome |-> NoOutcome, final |-> NoOutcome,
                status_code |-> Nil, calls |-> 0, attempts |-> 0, failed |-> 0, rows |-> <<>>]

\* wrapper, up to the end of the try statement: func has returned (status_code
\* stays 200) or raised (status_code 500, the error is re-raised), the finally
\* clause is next.
WrapperTry(w, action, table, outcome) ==
    /\ opCount < MaxOps
    /\ procs[w].pc = "idle"
    /\ opCount' = opCount + 1
    /\ users' = table
    /\ procs' = [procs EXCEPT ![w] =
           [@ EXCEPT !.pc = "finally", !.action = action, !.outcome = outcome,
                     !.final = NoOutcome,
                     !.status_code = IF outcome.kind = "raise" THEN 500 ELSE 200,
                     !.calls = @ + 1]]
    /\ UNCHANGED <<config, authVarsButUsers, rbacVars>>

\* @log_operation(action=Perm.USER_DISABLE) UserService.disable_users
DisableUsersAudited(w, ids) ==
    LET r == disable_users(users, ids)
    IN  WrapperTry(w, "user:disable", r.table, Returns(r.affected))

\* @log_operation(action=Perm.USER_UNLOCK) UserService.unlock_user
UnlockUserAudited(w, user_id) ==
    IF get_by_id(users, user_id) = {}
    THEN WrapperTry(w, "user:unlock", users, Raises("not_found"))
    ELSE WrapperTry(w, "user:unlock",
                    update_with_version(users, user_id, users[user_id].version,
                                        [failed_attempts |-> 0, locked_until |-> Nil]).table,
                    Returns(Nil))

\* The finally clause without its try / except: an error of dao.write
\* replaces the outcome of the call
wrapper_exit_propagating(outcome, written) ==
    IF written THEN outcome ELSE Raises("audit_error")

\* How the wrapper ends after the finally clause: the error of dao.write is
\* caught and logged, the return or raise of the try statement goes on.
wrapper_exit(outcome, written) == outcome

\* The finally clause: one dao.write, which writes the row or raises.
WrapperFinally(w, written) ==
    /\ procs[w].pc = "finally"
    /\ procs' = [procs EXCEPT ![w] =
           [@ EXCEPT !.pc = "idle",
                     !.attempts = @ + 1,
                     !.failed = IF written THEN @ ELSE @ + 1,
                     !.rows = IF written
                              THEN Append(@, [action |-> procs[w].action,
                                              status |-> procs[w].status_code])
                              ELSE @,
                     !.final = wrapper_exit(procs[w].outcome, written)]]
    /\ UNCHANGED <<users, opCount, config, authVarsButUsers, rbacVars>>

\* Rows as earlier requests may have left them: a failed login counted.
InitAudit ==
    /\ now = 0
    /\ users = [u \in UserIds |-> [NewUser EXCEPT !.failed_attempts = 1]]
    /\ userVersion = [u \in UserIds |-> Nil]
    /\ tokens = {}
    /\ revoked = {}
    /\ authResp = NoResp
    /\ procs = [w \in Writers |-> IdleAudited]
    /\ config = [i \in {1} |-> NewConfig]
    /\ InitRbac
    /\ permVersion = Nil
    /\ opCount = 0

NextAudit ==
    \/ \E w \in Writers, ids \in IdLists(UserIds \cup {MissingId}) : DisableUsersAudited(w, ids)
    \/ \E w \in Writers, u \in UserIds \cup {MissingId} : UnlockUserAudited(w, u)
    \/ \E w \in Writers, written \in BOOLEAN : WrapperFinally(w, written)

SpecAudit == InitAudit /\ [][NextAudit]_vars

----------------------------------------------------------------------------
(* user_has_permissions call by call, next to key expiry and invalidation: *)
(* core/permissions.py                                                     *)

\* A caller with no check in flight.  version is the epoch the check read,
\* user_perm_set the set it works with, answer what it returned; sawKey tells
\* whether its exists(key) answered true, lostKey whether the key was gone or
\* unreadable when its smembers ran.
IdleChecker == [pc |-> "idle", user |-> 0, code |-> "", version |-> Nil,
                user_perm_set |-> {}, answer |-> "none", sawKey |-> FALSE,
                lostKey |-> FALSE, unreadable |-> FALSE]

\* The key of the check caller w has in flight.
CheckKey(w) == cache_key(procs[w].user, procs[w].version)

\* One step of caller w's check that writes no cache key.
CheckStep(w, pc, rec) ==
    /\ procs[w].pc = pc
    /\ procs' = [procs EXCEPT ![w] = rec]
    /\ UNCHANGED <<opCount, config, authVars, rbacVars>>

\* version = await _get_perm_version(cm)
CheckBegin(w, user_id, code) ==
    /\ opCount < MaxRaceChecks
    /\ procs[w].pc = "idle"
    /\ opCount' = opCount + 1
    /\ procs' = [procs EXCEPT ![w] = [IdleChecker EXCEPT !.pc = "exists", !.user = user_id,
                                                         !.code = code,
                                                         !.version = get_perm_version]]
    /\ UNCHANGED <<config, authVars, rbacVars>>

\* if await cm.exists(key)
CheckExists(w) ==
    CheckStep(w, "exists",
              IF CheckKey(w) \in DOMAIN permCache
              THEN [procs[w] EXCEPT !.pc = "smembers", !.sawKey = TRUE]
              ELSE [procs[w] EXCEPT !.pc = "exists_empty"])

\* user_perm_set = await cm.smembers(key): the members, none if the key is
\* gone by now; an empty set is answered with False.  If the key holds a
\* value that is not a set the call raises, the key is deleted and the set
\* is taken as empty.
CheckSmembers(w, raises) ==
    LET key == CheckKey(w)
        members == IF key \in DOMAIN permCache THEN permCache[key] ELSE {}
    IN  /\ procs[w].pc = "smembers"
        /\ raises => key \in DOMAIN permCache
        /\ procs' = [procs EXCEPT ![w] =
               IF raises
               THEN [@ EXCEPT !.pc = "check", !.user_perm_set = {}, !.lostKey = TRUE,
                              !.unreadable = TRUE]
               ELSE IF members = {}
                    THEN [@ EXCEPT !.pc = "idle", !.answer = "deny", !.lostKey = TRUE]
                    ELSE [@ EXCEPT !.pc = "check", !.user_perm_set = members]]
        /\ permCache' = IF raises THEN [k \in DOMAIN permCache \ {key} |-> permCache[k]]
                        ELSE permCache
        /\ UNCHANGED <<roles, perms, rolePerms, userRoles, permVersion, emptyKeys, call,
                       lastOp, permResp, opCount, config>>
        /\ UNCHANGED authVars

\* elif await cm.exists(empty_key): return False
CheckExistsEmpty(w) ==
    CheckStep(w, "exists_empty",
              IF CheckKey(w) \in emptyKeys
              THEN [procs[w] EXCEPT !.pc = "idle", !.answer = "deny"]
              ELSE [procs[w] EXCEPT !.pc = "load"])

\* user_perm_set = await _load_user_permissions_from_db(user_id)
CheckLoad(w) ==
    CheckStep(w, "load",
              [procs[w] EXCEPT !.pc = "write",
                               !.user_perm_set = load_user_permissions_from_db(procs[w].user)])

\* sadd(key, *user_perm_set) and expire(key, 1800), or set(empty_key, "1", 60)
CheckWrite(w) ==
    LET key == CheckKey(w)
        old == IF key \in DOMAIN permCache THEN permCache[key] ELSE {}
    IN  /\ procs[w].pc = "write"
        /\ IF procs[w].user_perm_set # {}
           THEN /\ permCache' = [k \in DOMAIN permCache \cup {key} |->
                                    IF k = key THEN old \cup procs[w].user_perm_set
                                    ELSE permCache[k]]
                /\ UNCHANGED emptyKeys
           ELSE /\ emptyKeys' = emptyKeys \cup {key}
                /\ UNCHANGED permCache
        /\ procs' = [procs EXCEPT ![w] = [@ EXCEPT !.pc = "check"]]
        /\ UNCHANGED <<roles, perms, rolePerms, userRoles, permVersion, call, lastOp,
                       permResp, opCount, config>>
        /\ UNCHANGED authVars

\* return req_set.issubset(user_perm_set or set())
CheckReturn(w) ==
    CheckStep(w, "check",
              [procs[w] EXCEPT !.pc = "idle",
                               !.answer = IF {procs[w].code} \subseteq procs[w].user_perm_set
                                          THEN "allow" ELSE "deny"])

\* invalidate_user_permissions(user_id), as logout calls it
InvalidateUserPermissions(user_id) ==
    /\ permCache' = invalidate_user_permissions(user_id).permCache
    /\ emptyKeys' = invalidate_user_permissions(user_id).emptyKeys
    /\ <<permCache', emptyKeys'>> # <<permCache, emptyKeys>>
    /\ UNCHANGED <<roles, perms, rolePerms, userRoles, permVersion, call, lastOp,
                   permResp, opCount>>
    /\ UNCHANGED nonRbacVars

\* The seeded tables with user 2 bound to the role admin, which holds
\* user:list, and user 1 either bound to super_admin or left without a
\* role, as after unbind_roles; no mutation runs.
InitRace ==
    /\ now = 0
    /\ users = [u \in UserIds |-> NewUser]
    /\ userVersion = [u \in UserIds |-> Nil]
    /\ tokens = {}
    /\ revoked = {}
    /\ authResp = NoResp
    /\ procs = [w \in Writers |-> IdleChecker]
    /\ config = [i \in {1} |-> NewConfig]
    /\ roles = [r \in {1, 2} |-> NewEntity(IF r = 1 THEN "super_admin" ELSE "admin")]
    /\ perms = [p \in {1} |-> NewEntity("user:list")]
    /\ rolePerms = {RolePermission(1, 1), RolePermission(2, 1)}
    /\ userRoles \in {{UserRole(1, 1), UserRole(2, 2)}, {UserRole(2, 2)}}
    /\ permCache = EmptyCache
    /\ emptyKeys = {}
    /\ call = NoCall
    /\ lastOp = NoOp
    /\ permResp = NoPermResp
    /\ permVersion \in {Nil, 1}
    /\ opCount = 0

NextRace ==
    \/ \E w \in Writers, u \in UserIds, c \in PermCodes : CheckBegin(w, u, c)
    \/ \E w \in Writers : CheckExists(w)
    \/ \E w \in Writers, raises \in BOOLEAN : CheckSmembers(w, raises)
    \/ \E w \in Writers : CheckExistsEmpty(w)
    \/ \E w \in Writers : CheckLoad(w)
    \/ \E w \in Writers : CheckWrite(w)
    \/ \E w \in Writers : CheckReturn(w)
    \/ \E k \in DOMAIN permCache : ExpireKey(k, FALSE)
    \/ \E k \in emptyKeys : ExpireKey(k, TRUE)
    \/ \E u \in UserIds : InvalidateUserPermissions(u)

SpecRace == InitRace /\ [][NextRace]_vars

----------------------------------------------------------------------------
(* Concurrent bind and unbind calls: services/role.py, services/user.py,   *)
(* dao/role_permission.py, dao/user_role.py                                *)

\* A caller with no bind or unbind in flight.  restore and created are the
\* rows its bind decided to un-delete and to insert when it read the table,
\* status is how its last call ended.
IdleBinder == [pc |-> "idle", op |-> "none", restore |-> {}, created |-> {}, fkOk |-> TRUE,
               existed |-> 0, status |-> "none", affected |-> 0]

\* A step of caller w that leaves the tables alone.
BinderStep(w, rec) ==
    /\ opCount < MaxBindCalls
    /\ procs[w].pc = "idle"
    /\ opCount' = opCount + 1
    /\ procs' = [procs EXCEPT ![w] = rec]
    /\ UNCHANGED <<config, authVars, rbacVars>>

\* RoleService.bind_permissions up to the transaction of the DAO: the role
\* and the permissions are looked up, then the rows of the pairs are read and
\* split into rows to restore and pairs to create.
BindPermissionsRead(w, role_id, target_ids) ==
    LET existing == {x \in rolePerms : x.role_id = role_id /\ x.permission_id \in target_ids}
        existed_active == {x.permission_id : x \in {y \in existing : ~y.is_deleted}}
        to_create == {pid \in target_ids :
                         pid \notin existed_active
                         /\ \A x \in existing : x.permission_id # pid}
    IN  IF get_by_id(roles, role_id) = {} \/ \E q \in target_ids : get_by_id(perms, q) = {}
        THEN BinderStep(w, [IdleBinder EXCEPT !.op = "bind_permissions",
                                              !.status = "not_found"])
        ELSE BinderStep(w, [IdleBinder EXCEPT
                 !.pc = "write", !.op = "bind_permissions",
                 !.restore = {x \in existing : x.is_deleted},
                 !.created = {RolePermission(role_id, pid) : pid \in to_create},
                 !.existed = Cardinality(existed_active)])

\* UserService.bind_roles up to the transaction of the DAO; the call raises
\* when a row of one of the pairs is there (see bind_roles).
BindRolesRead(w, user_id, role_ids) ==
    LET existing == {x \in userRoles : x.user_id = user_id /\ x.role_id \in role_ids}
    IN  IF existing # {}
        THEN BinderStep(w, [IdleBinder EXCEPT !.op = "bind_roles",
                                              !.status = "attribute_error"])
        ELSE BinderStep(w, [IdleBinder EXCEPT
                 !.pc = "write", !.op = "bind_roles",
                 !.created = {UserRole(user_id, rid) : rid \in role_ids},
                 !.fkOk = (user_id \in DOMAIN users /\ role_ids \subseteq DOMAIN roles)])

\* async with in_transaction(): the update of the rows to restore, by id (a
\* row that is no longer soft-deleted stays as it is), and the bulk_create,
\* on the table as it is now.
BindCommit(w) ==
    LET table == IF procs[w].op = "bind_permissions" THEN rolePerms ELSE userRoles
        b == BindWrite(table, procs[w].restore \cap table, procs[w].created,
                       procs[w].fkOk, procs[w].existed)
    IN  /\ procs[w].pc = "write"
        /\ rolePerms' = IF procs[w].op = "bind_permissions" THEN b.table ELSE rolePerms
        /\ userRoles' = IF procs[w].op = "bind_roles" THEN b.table ELSE userRoles
        /\ procs' = [procs EXCEPT ![w] =
               [@ EXCEPT !.pc = IF b.status = "ok" THEN "bump" ELSE "idle",
                         !.status = b.status]]
        /\ UNCHANGED <<roles, perms, permVersion, permCache, emptyKeys, call, lastOp,
                       permResp, opCount, config>>
        /\ UNCHANGED authVars

\* The UPDATE of an unbind on behalf of caller w.
UnbindCall(w, op, b) ==
    /\ opCount < MaxBindCalls
    /\ procs[w].pc = "idle"
    /\ opCount' = opCount + 1
    /\ rolePerms' = IF op = "unbind_permissions" THEN b.table ELSE rolePerms
    /\ userRoles' = IF op = "unbind_roles" THEN b.table ELSE userRoles
    /\ procs' = [procs EXCEPT ![w] =
           [IdleBinder EXCEPT !.pc = IF b.status = "ok" /\ b.affected # 0
                                     THEN "bump" ELSE "idle",
                              !.op = op, !.status = b.status, !.affected = b.affected]]
    /\ UNCHANGED <<roles, perms, permVersion, permCache, emptyKeys, call, lastOp, permResp,
                   config>>
    /\ UNCHANGED authVars

\* RoleService.unbind_permissions
UnbindPermissionsCall(w, role_id, target_ids) ==
    UnbindCall(w, "unbind_permissions",
               unbind_permissions_from_roles(rolePerms, {role_id}, target_ids))

\* UserService.unbind_roles
UnbindRolesCall(w, user_id, role_ids) ==
    UnbindCall(w, "unbind_roles", unbind_roles(userRoles, user_id, role_ids))

\* await bump_perm_version(), then the call returns.
BinderBump(w) ==
    /\ procs[w].pc = "bump"
    /\ permVersion' = bump_version(permVersion)
    /\ procs' = [procs EXCEPT ![w] = [@ EXCEPT !.pc = "idle"]]
    /\ UNCHANGED <<roles, perms, rolePerms, userRoles, permCache, emptyKeys, call, lastOp,
                   permResp, opCount, config>>
    /\ UNCHANGED authVars

\* The seeded tables after create_permission("role:list"): the new
\* permission is bound to no role yet.
InitBind ==
    /\ now = 0
    /\ users = [u \in UserIds |-> NewUser]
    /\ userVersion = [u \in UserIds |-> Nil]
    /\ tokens = {}
    /\ revoked = {}
    /\ authResp = NoResp
    /\ procs = [w \in Writers |-> IdleBinder]
    /\ config = [i \in {1} |-> NewConfig]
    /\ roles = [r \in {1, 2} |-> NewEntity(IF r = 1 THEN "super_admin" ELSE "admin")]
    /\ perms = [p \in {1, 2} |-> NewEntity(IF p = 1 THEN "user:list" ELSE "role:list")]
    /\ rolePerms = {RolePermission(1, 1), RolePermission(2, 1)}
    /\ userRoles = {UserRole(1, 1)}
    /\ permCache = EmptyCache
    /\ emptyKeys = {}
    /\ call = NoCall
    /\ lastOp = NoOp
    /\ permResp = NoPermResp
    /\ permVersion = 2
    /\ opCount = 0

NextBind ==
    \/ \E w \in Writers, r \in RoleIds, ps \in IdLists(PermIds) : BindPermissionsRead(w, r, ps)
    \/ \E w \in Writers, u \in UserIds, rs \in IdLists(RoleIds) : BindRolesRead(w, u, rs)
    \/ \E w \in Writers : BindCommit(w)
    \/ \E w \in Writers, r \in RoleIds, ps \in IdLists(PermIds) :
          UnbindPermissionsCall(w, r, ps)
    \/ \E w \in Writers, u \in UserIds, rs \in IdLists(RoleIds) : UnbindRolesCall(w, u, rs)
    \/ \E w \in Writers : BinderBump(w)

SpecBind == InitBind /\ [][NextBind]_vars

----------------------------------------------------------------------------
(* Concurrent logins, the read of the row and the write in two steps:      *)
(* services/auth.py                                                        *)

\* A caller with no login in flight; inst is the row its login read.
IdleLogin == [pc |-> "idle", user |-> 0, pwOk |-> FALSE, inst |-> NewUser, status |-> "none"]

\* The history of the failed logins: per user, the wrong-password logins
\* that completed since the user's last completed successful login or lock.
NoFailures == [fails |-> [u \in UserIds |-> 0]]

\* AuthService.login up to the password check: the row is read, a deleted,
\* disabled or locked account is answered at once.
LoginRead(w, u, pwOk) ==
    LET row == users[u]
        t == Token(u, 0, "login")
        early == IF ~IsAlive(row) THEN "unauthorized"
                 ELSE IF ~row.is_active \/ IsLocked(row) THEN "forbidden"
                 ELSE "none"
    IN  /\ opCount < MaxOps
        /\ procs[w].pc = "idle"
        /\ opCount' = opCount + 1
        /\ procs' = [procs EXCEPT ![w] =
               [pc |-> IF early = "none" THEN "write" ELSE "idle", user |-> u,
                pwOk |-> pwOk, inst |-> row, status |-> early]]
        /\ authResp' = IF early = "none" THEN authResp ELSE LoginResp(t, early, pwOk)
        /\ UNCHANGED <<now, users, userVersion, tokens, revoked, config, rbacVars>>

\* AuthService.login from the password check on: the failure branch writes
\* the counter and the lock computed from the row that was read, the success
\* branch mints the tokens and clears both; filter(id=user.id).update(...)
\* has no other condition.
LoginWrite(w) ==
    LET u == procs[w].user
        failed == LoginFailureRow(procs[w].inst)
        ver == get_version(userVersion[u], 1)
    IN  /\ procs[w].pc = "write"
        /\ IF ~procs[w].pwOk
           THEN /\ users' = [users EXCEPT ![u].failed_attempts = failed.failed_attempts,
                                          ![u].locked_until = failed.locked_until]
                /\ authResp' = LoginResp(Token(u, 0, "login"),
                                         IF failed.locked_until # Nil THEN "forbidden"
                                         ELSE "unauthorized", FALSE)
                /\ lastOp' = [lastOp EXCEPT !.fails[u] =
                                  IF failed.locked_until # Nil THEN 0 ELSE @ + 1]
                /\ UNCHANGED tokens
           ELSE /\ tokens' = tokens \cup TokenPair(u, ver)
                /\ users' = [users EXCEPT ![u].failed_attempts = 0,
                                          ![u].locked_until = Nil]
                /\ authResp' = LoginResp(Token(u, ver, "login"), "ok", TRUE)
                /\ lastOp' = [lastOp EXCEPT !.fails[u] = 0]
        /\ procs' = [procs EXCEPT ![w] =
               [@ EXCEPT !.pc = "idle", !.status = authResp'.status]]
        /\ UNCHANGED <<now, userVersion, revoked, opCount, config>>
        /\ UNCHANGED <<roles, perms, rolePerms, userRoles, permVersion, permCache, emptyKeys,
                       call, permResp>>

InitLogin ==
    /\ now = 0
    /\ users = [u \in UserIds |-> NewUser]
    /\ userVersion = [u \in UserIds |-> Nil]
    /\ tokens = {}
    /\ revoked = {}
    /\ authResp = NoResp
    /\ procs = [w \in Writers |-> IdleLogin]
    /\ config = [i \in {1} |-> NewConfig]
    /\ roles = [r \in {1, 2} |-> NewEntity(IF r = 1 THEN "super_admin" ELSE "admin")]
    /\ perms = [p \in {1} |-> NewEntity("user:list")]
    /\ rolePerms = {RolePermission(1, 1), RolePermission(2, 1)}
    /\ userRoles = {UserRole(1, 1)}
    /\ permCache = EmptyCache
    /\ emptyKeys = {}
    /\ call = NoCall
    /\ lastOp = NoFailures
    /\ permResp = NoPermResp
    /\ permVersion = Nil
    /\ opCount = 0

NextLogin ==
    \/ \E w \in Writers, u \in UserIds, pwOk \in BOOLEAN : LoginRead(w, u, pwOk)
    \/ \E w \in Writers : LoginWrite(w)
    \/ Tick

SpecLogin == InitLogin /\ [][NextLogin]_vars

----------------------------------------------------------------------------
(* Claims *)

\* C1: after logout(u) has returned, every access and refresh token minted
\* for u before that logout is rejected as Unauthorized by refresh and by
\* request authentication, also when the key auth:ver:u:{u} was never
\* written before the logout.
C1_RevokedTokensRejected ==
    \A t \in revoked :
        /\ AuthStatus(t) = "unauthorized"
        /\ RefreshStatus(t) = "unauthorized"
        /\ (authResp.op \in {"refresh", "authenticate"}
              /\ Token(authResp.sub, authResp.ver, authResp.typ) = t)
           => authResp.status = "unauthorized"

\* C2: a has_permission call that starts after a bind or unbind that changed
\* bindings has returned (and while no mutation is in flight) answers what the
\* tables give at that moment, never what a set or an :empty marker cached
\* before the operation gives; this from any starting state of the epoch key,
\* the absent key included.
C2_ChecksFollowBindings ==
    (permResp.op = "has_permission" /\ permResp.path # "none" /\ permResp.settled)
        => ((permResp.status = "ok") <=> permResp.fresh)

\* C3: the epoch observed after a mutation of Role, Permission or a binding
\* table is strictly greater than the epoch observed after the mutation
\* before it.
C3_EpochGrowsWithEveryMutation ==
    (lastOp.status = "ok" /\ lastOp.changed /\ lastOp.prevMutEpoch # Nil)
        => lastOp.epoch > lastOp.prevMutEpoch

\* C4: every successful mutation of Role, Permission or a binding table calls
\* bump_perm_version exactly once, a batch once for the whole batch.
C4_OneBumpPerMutation ==
    (lastOp.status = "ok" /\ lastOp.changed) => lastOp.bumps = 1

\* The epoch key moves only in the second half of a call whose write is done.
C5_BumpAfterWrite == permVersion' # permVersion => (call.op # "none" /\ call.bump)

\* An operation that raised or changed no row made no bump.
C5_NoBumpWithoutChange ==
    (lastOp.op # "none" /\ (lastOp.status # "ok" \/ ~lastOp.changed)) => lastOp.bumps = 0

\* C5: the epoch bump of a mutating operation comes after its write has
\* committed, never before; an operation whose write fails or changes no row
\* does not advance the epoch.
C5_EpochAdvancesOnRealChangesOnly ==
    [] C5_NoBumpWithoutChange /\ [][C5_BumpAfterWrite]_vars

\* C6: a user with an alive binding to the role coded super_admin passes
\* has_permission for every code, bound to that role or not, created before or
\* after the grant, on the path that resolves from the tables and on the path
\* that answers from the cache.
C6_SuperAdminPasses ==
    (permResp.op = "has_permission" /\ permResp.super) => permResp.status = "ok"

\* Writers whose update_with_version statement has run
Executed == {w \in Writers : procs[w].pc = "done" /\ procs[w].affected # Nil}

\* The executed update_with_version(u, V, _) calls
CallsAt(u, V) == {w \in Executed : procs[w].id = u /\ procs[w].version = V}

C7_AtMostOneWinner ==
    \A u \in UserIds, V \in 0..(MaxVersion + NumWriters) :
        LET G == CallsAt(u, V)
            W == {w \in G : procs[w].affected = 1}
        IN  /\ Cardinality(W) <= 1
            /\ (\E w \in G : procs[w].seen = V) => Cardinality(W) = 1
            /\ (W # {} /\ \A w \in Executed : procs[w].id = u => w \in G)
                 => /\ users[u].version = V + 1
                    /\ \A w \in W : \A f \in DOMAIN procs[w].data :
                           users[u][f] = procs[w].data[f]

C7_StatementEffect ==
    \A w \in Writers :
        (procs[w].pc # "done" /\ procs'[w].pc = "done" /\ procs'[w].affected # Nil)
        => IF procs'[w].affected = 0
           THEN users' = users
           ELSE /\ procs'[w].affected = 1
                /\ users'[procs'[w].id].version = procs'[w].version + 1
                /\ users[procs'[w].id].version = procs'[w].version
                /\ \A u \in UserIds \ {procs'[w].id} : users'[u] = users[u]

\* C7: of the update_with_version(id, V, patch) calls made concurrently on a
\* row at version V exactly one returns 1 and the others 0; the row ends at
\* version V + 1 (never V + 2) with the fields of the winning patch only, and
\* a call that returns 0 leaves the table as it was.
C7_ConcurrentUpdateOneWinner == [] C7_AtMostOneWinner /\ [][C7_StatementEffect]_vars

\* Two calls carried the same version V of a row then at V: one won, the
\* other ran after it and lost.
C7_Witness ==
    \E w1, w2 \in Executed :
        /\ w1 # w2
        /\ procs[w1].id = procs[w2].id /\ procs[w1].version = procs[w2].version
        /\ procs[w1].affected = 1 /\ procs[w1].seen = procs[w1].version
        /\ procs[w2].affected = 0 /\ procs[w2].seen = procs[w2].version + 1
        /\ procs[w1].data # procs[w2].data
        /\ users[procs[w1].id].version = procs[w1].version + 1

\* C8: every service operation that writes through update_with_version
\* raises Conflict when the affected count is 0 and never reports success
\* then.
C8_ZeroAffectedIsConflict ==
    \A w \in Executed : procs[w].affected = 0 => procs[w].status = "conflict"

\* The update_config calls that have returned or raised
ConfigCalls == {w \in Writers : procs[w].pc = "done" /\ procs[w].op = "update_config"}

\* C9: update_config applies a payload only if the stored version still
\* equals payload.version when the write takes effect; a writing payload with
\* a stale version fails with Conflict, a successful update raises the version
\* by exactly 1, and of two concurrent calls carrying the same version
\* exactly one succeeds.
C9_NoLostConfigUpdate ==
    /\ \A w \in ConfigCalls :
          procs[w].affected = 1 =>
              /\ procs[w].seen = procs[w].version
              /\ procs[w].status = "ok"
    /\ \A w1, w2 \in ConfigCalls :
          (w1 # w2 /\ procs[w1].version = procs[w2].version
           /\ procs[w1].affected = 1) => procs[w2].affected # 1

\* C10: a bind of one (role, permission) or (user, role) pair that was bound
\* and then unbound (its row is soft-deleted) succeeds, reports restored = 1,
\* added = 0, existed = 0 and leaves one alive row for the pair and no other.
C10_RebindRestores ==
    (/\ lastOp.op \in {"bind_permissions", "bind_roles"}
     /\ lastOp.pairs = 1
     /\ lastOp.before # {} /\ \A x \in lastOp.before : x.is_deleted)
    => /\ lastOp.status = "ok"
       /\ lastOp.stats = [added |-> 0, restored |-> 1, existed |-> 0]
       /\ Cardinality(lastOp.after) = 1
       /\ \A x \in lastOp.after : ~x.is_deleted

\* The (role, permission) half of C10 alone.
C10_RebindRestoresPermission ==
    lastOp.op = "bind_permissions" => C10_RebindRestores


\* The bind calls that take a list of ids.
C11_BindCalls == {"bind_permissions", "bind_permissions_batch", "bind_roles", "bind_roles_batch"}

\* The partition of the named pairs for the last returned call, when it is
\* one of ops and all the ids it names exist.
C11_Partition(ops) ==
    (lastOp.op \in ops /\ lastOp.status \notin {"not_found", "integrity_error"}) =>
        /\ lastOp.status = "ok"
        /\ lastOp.stats.added + lastOp.stats.restored + lastOp.stats.existed = lastOp.pairs
        /\ lastOp.stats.restored = Cardinality({x \in lastOp.before : x.is_deleted})
        /\ lastOp.stats.existed = Cardinality({x \in lastOp.before : ~x.is_deleted})
        /\ Cardinality(lastOp.after) = lastOp.pairs
        /\ \A x \in lastOp.after : ~x.is_deleted

\* C11: every bind call over a list of ids counts each target pair in exactly
\* one of added / restored / existed (added + restored + existed = number of
\* distinct target pairs; restored are the pairs found soft-deleted, existed
\* the pairs found active), and afterwards every target pair has exactly one
\* active binding row.
C11_BindStatsPartition == C11_Partition(C11_BindCalls)

\* The same statement for the role-permission binds only.
C11_RolePermissionStatsPartition ==
    C11_Partition({"bind_permissions", "bind_permissions_batch"})


\* C12: every binding operation (bind_permissions, bind_permissions_batch,
\* bind_roles, bind_roles_batch) checks the ids it names: when a referenced
\* user, role or permission is missing or soft-deleted the call ends with
\* NotFound, writes no binding row and does not bump the epoch.
C12_BindsValidateIds ==
    (lastOp.op \in C11_BindCalls /\ ~lastOp.refsAlive) =>
        /\ lastOp.status = "not_found"
        /\ ~lastOp.changed
        /\ lastOp.after = lastOp.before
        /\ lastOp.bumps = 0

\* The same statement for the two operations that validate before the DAO
\* call.
C12_ValidatingBinds ==
    (lastOp.op \in {"bind_permissions", "bind_roles_batch"} /\ ~lastOp.refsAlive) =>
        /\ lastOp.status = "not_found"
        /\ ~lastOp.changed
        /\ lastOp.after = lastOp.before
        /\ lastOp.bumps = 0

\* A bind that names a soft-deleted role or permission, or a missing one,
\* writes a row and bumps the epoch.
C12_BindsToDeadRowsRefused ==
    (lastOp.op \in C11_BindCalls /\ ~lastOp.refsAlive) => (~lastOp.changed /\ lastOp.bumps = 0)


\* The last check is the second of two checks of one (user, code): the first
\* found the user without any permission and answered false, then exactly
\* bind_permissions and bind_roles returned, and the tables now grant the
\* code to the user with no mutation in flight.
C13_Scenario ==
    /\ permResp.op = "has_permission"
    /\ permResp.prev.user = permResp.user /\ permResp.prev.code = permResp.code
    /\ permResp.prev.noperms /\ permResp.prev.status = "forbidden"
    /\ permResp.prev.epoch # Nil
    /\ permResp.between = <<[op |-> "bind_permissions", status |-> "ok", bumps |-> 1],
                            [op |-> "bind_roles", status |-> "ok", bumps |-> 1]>>
    /\ permResp.fresh /\ permResp.settled

\* C13: for a user U without permissions whose has_permission(U, P) has just
\* returned false, after P is bound to a role R and R is bound to U,
\* has_permission(U, P) returns true and the epoch read by the second check
\* is exactly 2 greater than the epoch read by the first.
C13_EndToEndGrant ==
    C13_Scenario => (permResp.status = "ok" /\ permResp.epoch = permResp.prev.epoch + 2)

\* The answer alone: the second check returns true.
C13_SecondCheckGrants == C13_Scenario => permResp.status = "ok"

\* The epoch arithmetic when the epoch key existed at the first check.
C13_EpochPlusTwoWhenKeyPresent ==
    (C13_Scenario /\ lastOp.epoch >= 3) => permResp.epoch = permResp.prev.epoch + 2


\* The last check is the second of two checks of one user: the first resolved
\* from the tables and found no permission, no mutation that returned in
\* between bumped the epoch and no cache key expired.
C14_Scenario ==
    /\ permResp.op = "has_permission" /\ permResp.path # "none"
    /\ permResp.prev.user = permResp.user
    /\ permResp.prev.path = "miss" /\ permResp.prev.noperms
    /\ \A i \in DOMAIN permResp.between : permResp.between[i].bumps = 0
    /\ ~permResp.expiredBetween

\* C14: a user with zero permissions who is checked twice with no epoch bump
\* in between and within the TTL of the negative entry causes exactly one
\* resolver call: the first check stores the :empty marker, the second
\* answers false from the marker without resolving.
C14_NegativeCacheOneResolve ==
    /\ C14_Scenario =>
          /\ permResp.path = "empty"
          /\ permResp.status = "forbidden"
          /\ permResp.epoch = permResp.prev.epoch
          /\ permResp.prev.loads + permResp.loads = 1
    /\ (/\ permResp.path = "miss" /\ permResp.noperms
        /\ \A i \in DOMAIN permResp.since : permResp.since[i].bumps = 0
        /\ ~permResp.expired) =>
          /\ permResp.loads = 1
          /\ cache_key(permResp.user, permResp.epoch) \in emptyKeys

\* Two checks of a user without permissions, the second answered from the
\* marker, with a mutation that did not bump returned in between.
C14_Witness ==
    /\ C14_Scenario
    /\ permResp.path = "empty"
    /\ permResp.prev.loads = 1 /\ permResp.loads = 0
    /\ permResp.between # <<>>


\* The step is a login of user u.
C15_LoginOf(u) ==
    opCount' = opCount + 1 /\ authResp'.op = "login" /\ authResp'.sub = u

C17_RefreshStep == opCount' = opCount + 1 /\ authResp'.op = "refresh"

\* The token the last answer was given for.
C17_Presented == Token(authResp.sub, authResp.ver, authResp.typ)

C18_Barred(u) == users[u].is_deleted \/ ~users[u].is_active

\* C18: a disabled or soft-deleted user gets no new token and no
\* authorization, also with tokens whose epoch still matches: login mints
\* nothing, refresh is Unauthorized, and a permission-guarded request with a
\* valid access token is Forbidden before the permission cache is read or
\* written.
C18_BarredUserRejected ==
    [][\A u \in UserIds :
          (C18_Barred(u) /\ opCount' = opCount + 1 /\ authResp'.sub = u) =>
              /\ authResp'.op = "login" =>
                    (authResp'.status # "ok" /\ tokens' = tokens)
              /\ authResp'.op = "refresh" =>
                    (authResp'.status = "unauthorized" /\ tokens' = tokens)
              /\ (/\ authResp'.op = "request"
                  /\ authResp'.typ = "access"
                  /\ authResp'.ver = get_version(userVersion[u], 1)) =>
                    /\ authResp'.status = "forbidden"
                    /\ permResp'.status = "forbidden"
                    /\ permResp'.path = "none" /\ permResp'.loads = 0
                    /\ permCache' = permCache
                    /\ emptyKeys' = emptyKeys]_vars

\* A guarded request of a barred user was answered Forbidden although the
\* access token's epoch matches and a permission set of the user is cached at
\* the current epoch.
C18_Witness ==
    /\ authResp.op = "request" /\ authResp.status = "forbidden"
    /\ authResp.sub \in UserIds
    /\ C18_Barred(authResp.sub)
    /\ AuthStatus(C17_Presented) = "ok"
    /\ permResp.path = "none" /\ permResp.user = authResp.sub
    /\ cache_key(authResp.sub, get_perm_version) \in DOMAIN permCache


\* C19: token kinds are not interchangeable: refresh answers Unauthorized to
\* every token whose typ is not "refresh", and get_current_user_id answers
\* Unauthorized to every token whose typ is not "access", whatever epoch the
\* token embeds.
C19_TokenKindsNotInterchangeable ==
    /\ (authResp.op = "refresh" /\ authResp.typ # "refresh") =>
          authResp.status = "unauthorized"
    /\ (authResp.op \in {"authenticate", "request", "logout"} /\ authResp.typ # "access") =>
          authResp.status = "unauthorized"
    /\ \A t \in tokens :
          /\ t.typ # "refresh" => RefreshStatus(t) = "unauthorized"
          /\ t.typ # "access" => AuthStatus(t) = "unauthorized"

\* A refresh token whose epoch is current was presented as a bearer token by
\* an active user and refused.
C19_Witness ==
    /\ authResp.op \in {"authenticate", "request", "logout"}
    /\ authResp.typ = "refresh" /\ authResp.status = "unauthorized"
    /\ authResp.sub \in UserIds
    /\ authResp.ver = get_version(userVersion[authResp.sub], 1)
    /\ users[authResp.sub].is_active /\ ~users[authResp.sub].is_deleted
    /\ \E t \in tokens : /\ t.typ = "access" /\ t.sub = authResp.sub
                         /\ t.ver = authResp.ver
                         /\ RefreshStatus(t) = "unauthorized"


\* What invalidate_user_permissions(u) returns in the current state: the
\* cache without the set key and the :empty marker of u at the current epoch,
\* every other entry as it is.
C20_DeletesOnlyCurrentEntry(u) ==
    LET key == cache_key(u, get_version(permVersion, 1))
        r == invalidate_user_permissions(u)
    IN  /\ DOMAIN r.permCache = DOMAIN permCache \ {key}
        /\ \A k \in DOMAIN r.permCache : r.permCache[k] = permCache[k]
        /\ r.emptyKeys = emptyKeys \ {key}

\* C20: invalidate_user_permissions(u) deletes exactly the positive and the
\* negative cache entry of u at the current permission epoch; the entries of
\* other users, the entries keyed by other epochs, the permission epoch
\* counter and every per-user token epoch stay as they are (in a logout the
\* only counter that moves is the caller's token epoch, bumped by logout
\* itself before the call).
C20_InvalidateFrame ==
    [][/\ \A u \in UserIds : C20_DeletesOnlyCurrentEntry(u)
       /\ \A u \in UserIds :
             (/\ opCount' = opCount + 1 /\ call' = call
              /\ authResp'.op = "logout" /\ authResp'.status = "ok" /\ authResp'.sub = u) =>
                 LET key == cache_key(u, get_version(permVersion, 1))
                 IN  /\ DOMAIN permCache' = DOMAIN permCache \ {key}
                     /\ \A k \in DOMAIN permCache' : permCache'[k] = permCache[k]
                     /\ emptyKeys' = emptyKeys \ {key}
                     /\ permVersion' = permVersion
                     /\ userVersion' = [userVersion EXCEPT ![u] = bump_version(@)]]_vars

\* A logout has just deleted the entry the user's last check had stored at
\* the current epoch, while an entry of the user under an older epoch and an
\* entry of another user under the current epoch are still there.
C20_Witness ==
    LET u == authResp.sub
        epoch == get_version(permVersion, 1)
        kept == DOMAIN permCache \cup emptyKeys
    IN  /\ authResp.op = "logout" /\ authResp.status = "ok"
        /\ permResp.user = u /\ permResp.path = "miss" /\ permResp.epoch = epoch
        /\ permResp.since = <<>>
        /\ cache_key(u, epoch) \notin kept
        /\ \E k \in kept : k[2] = u /\ k[1] # epoch
        /\ \E k \in kept : k[2] # u /\ k[1] = epoch


\* C21: when a call of the cache backend fails during has_permission (epoch
\* read, exists, set read or write) the check does not fail: it answers what
\* the resolver gives for the tables; a cache error never becomes an allow
\* the resolver would not give.
C21_CacheErrorFallsBack ==
    (permResp.op = "has_permission" /\ permResp.failed # "none") =>
        /\ permResp.status # "error"
        /\ permResp.status = (IF permResp.fresh THEN "ok" ELSE "forbidden")

\* The second half alone: no allow out of a cache error.
C21_NoAllowFromCacheError ==
    (permResp.op = "has_permission" /\ permResp.failed # "none" /\ permResp.status = "ok")
        => permResp.fresh

\* A set key that cannot be read makes the check deny what the tables grant.
C21_UnreadableSetFallsBack ==
    (permResp.op = "has_permission" /\ permResp.failed = "smembers" /\ permResp.fresh)
        => permResp.status = "ok"

\* The number a counter key stands for: an absent key counts as 0 (INCR).
C22_Num(v) == IF v = Nil THEN 0 ELSE v

\* No two completed bumps of one key returned the same value, whether they
\* were made by one caller or by two.
C22_DistinctReturns ==
    \A k \in BumpKeys :
        /\ \A w \in Writers : Cardinality(procs[w].rets[k]) = procs[w].count[k]
        /\ \A w1, w2 \in Writers : w1 # w2 => procs[w1].rets[k] \cap procs[w2].rets[k] = {}

\* Every step raises each counter by the number of bumps of it that the step
\* completes (none or one), so no increment is lost and no counter decreases.
C22_NoLostIncrement ==
    \A k \in BumpKeys :
        LET done == {w \in Writers : procs'[w].count[k] = procs[w].count[k] + 1}
        IN  /\ \A w \in Writers \ done : procs'[w].count[k] = procs[w].count[k]
            /\ C22_Num(CounterOf(permVersion', userVersion', k))
                  = C22_Num(CounterOf(permVersion, userVersion, k)) + Cardinality(done)
            /\ \A w \in done :
                  procs'[w].rets[k] = procs[w].rets[k]
                      \cup {C22_Num(CounterOf(permVersion', userVersion', k))}

\* C22: counter increments are atomic: concurrent bump_perm_version calls
\* (and concurrent logouts of one user) each return a distinct value, k
\* completed bumps raise the stored counter by exactly k, and the stored
\* counter never decreases.
C22_AtomicIncrements == [] C22_DistinctReturns /\ [][C22_NoLostIncrement]_vars

\* Two callers whose bumps of one key were in flight together have both
\* completed, the first of them on an absent key; the same for two logouts
\* of one user.
C22_Witness ==
    /\ \E w1, w2 \in Writers :
          /\ w1 # w2
          /\ 1 \in procs[w1].rets[PermKey] /\ procs[w1].raced
          /\ 2 \in procs[w2].rets[PermKey]
          /\ procs[w1].op = "bump_perm_version" /\ procs[w2].op = "bump_perm_version"
    /\ permVersion = 2

\* Two logouts of one user that were in flight together have both completed.
C22_WitnessLogout ==
    \E w1, w2 \in Writers, u \in UserIds :
        /\ w1 # w2
        /\ procs[w1].op = "logout" /\ procs[w2].op = "logout"
        /\ procs[w1].key = u /\ procs[w2].key = u
        /\ procs[w1].raced /\ procs[w1].pc = "idle" /\ procs[w2].pc = "idle"
        /\ procs[w1].count[u] = 1 /\ procs[w2].count[u] = 1
        /\ userVersion[u] = 2

\* Every row is flagged deleted exactly when its deleted_at is set.
C23_Consistent == \A i \in DOMAIN perms : perms[i].is_deleted <=> perms[i].deleted_at # Nil

\* The last call was a soft delete of rows that were all deleted already, or
\* a restore of rows none of which was deleted.
C23_NoOpCall ==
    /\ lastOp.ids \subseteq DOMAIN lastOp.before
    /\ \/ /\ lastOp.op \in {"soft_delete", "bulk_soft_delete"}
          /\ \A i \in lastOp.ids : lastOp.before[i].is_deleted
       \/ /\ lastOp.op \in {"restore", "bulk_restore"}
          /\ \A i \in lastOp.ids : ~lastOp.before[i].is_deleted

\* C23: after any sequence of soft_delete, restore, bulk_soft_delete and
\* bulk_restore on a row, is_deleted is true exactly when deleted_at is set;
\* soft-deleting an already-deleted row and restoring a non-deleted row
\* affect zero rows, raise no error and change nothing.
C23_SoftDeleteConsistency ==
    /\ C23_Consistent
    /\ C23_NoOpCall =>
          lastOp.affected = 0 /\ lastOp.status = "ok" /\ perms = lastOp.before

\* A row soft-deleted at time 1 has just been restored.
C23_Witness ==
    /\ lastOp.op \in {"restore", "bulk_restore"}
    /\ lastOp.affected >= 1
    /\ \E i \in lastOp.ids \cap DOMAIN perms :
          /\ lastOp.before[i].is_deleted /\ lastOp.before[i].deleted_at = 1
          /\ ~perms[i].is_deleted /\ perms[i].deleted_at = Nil

\* A soft delete of an already-deleted row has returned.
C23_WitnessNoOp ==
    /\ C23_NoOpCall
    /\ lastOp.op = "soft_delete"
    /\ \E i \in lastOp.ids : lastOp.before[i].deleted_at = 2

\* The step writes a column of user u's row other than the soft-delete pair.
C24_Mutated(u) ==
    \E f \in DOMAIN users[u] \ {"is_deleted", "deleted_at"} : users'[u][f] # users[u][f]

\* C24: every successful mutation of a User row (profile update, password
\* change, lock and unlock including the lockout and failure-counter writes
\* made by login, disable) increments the row's version.
C24_EveryMutationIncrementsVersion ==
    [][\A u \in UserIds : C24_Mutated(u) => users'[u].version = users[u].version + 1]_vars

\* The writes that go through update_with_version (profile update, password
\* change, unlock) are the ones that do increment it.
C24_GuardedWritesIncrementVersion ==
    [][\A u \in UserIds : (C24_Mutated(u) /\ procs' # procs)
            => users'[u].version = users[u].version + 1]_vars

\* Every wrapper call that has ended made one dao.write, and the call in
\* flight has made none yet.
C25_OneAttemptPerCall ==
    \A w \in Writers :
        /\ procs[w].attempts = procs[w].calls - (IF procs[w].pc = "finally" THEN 1 ELSE 0)
        /\ Len(procs[w].rows) + procs[w].failed = procs[w].attempts

\* The wrapper ends as the wrapped function ended, whether the audit row was
\* written or not.
C25_OutcomeKept ==
    \A w \in Writers :
        (procs[w].pc = "idle" /\ procs[w].calls > 0) =>
            /\ procs[w].final = procs[w].outcome
            /\ procs[w].final.kind \in {"return", "raise"}
            /\ procs[w].final.kind = "raise" <=> procs[w].status_code = 500

\* C25: every call of an audited service operation attempts exactly one
\* audit record, on success and on failure alike, and a failure of the audit
\* write never changes the outcome of the operation.
C25_AuditNeverChangesOutcome == C25_OneAttemptPerCall /\ C25_OutcomeKept

\* A call that returned a result and a call that raised have both ended
\* after their audit write failed.
C25_Witness ==
    \E w1, w2 \in Writers :
        /\ procs[w1].pc = "idle" /\ procs[w2].pc = "idle"
        /\ procs[w1].final = Returns(1) /\ procs[w1].failed = 1 /\ procs[w1].calls = 1
        /\ procs[w2].final = Raises("not_found") /\ procs[w2].failed = 1
        /\ procs[w2].calls = 1
        /\ \E u \in UserIds : ~users[u].is_active

\* C26: every bump changes the value readers obtain: the value get_version
\* returns after a bump_perm_version (or, for the per-user counter, after a
\* logout) is strictly greater than the value it returned before, also when
\* the counter key is absent and the earlier read fell back to the default 1.
C26_BumpRaisesReadValue ==
    [][\A k \in BumpKeys :
          CounterOf(permVersion', userVersion', k) # CounterOf(permVersion, userVersion, k)
              => get_version(CounterOf(permVersion', userVersion', k), 1)
                     > get_version(CounterOf(permVersion, userVersion, k), 1)]_vars

\* With the key present every bump does raise the value readers obtain.
C26_BumpOfPresentKeyRaisesReadValue ==
    [][\A k \in BumpKeys :
          (/\ CounterOf(permVersion, userVersion, k) # Nil
           /\ CounterOf(permVersion', userVersion', k) # CounterOf(permVersion, userVersion, k))
              => get_version(CounterOf(permVersion', userVersion', k), 1)
                     > get_version(CounterOf(permVersion, userVersion, k), 1)]_vars

\* The binding tables grant code c to user u: an alive role bound to u holds
\* an alive permission with that code.
C27_Granted(u, c) ==
    \E x \in userRoles, y \in rolePerms :
        /\ x.user_id = u /\ ~x.is_deleted /\ ~y.is_deleted /\ y.role_id = x.role_id
        /\ x.role_id \in DOMAIN roles /\ IsAlive(roles[x.role_id])
        /\ y.permission_id \in DOMAIN perms /\ IsAlive(perms[y.permission_id])
        /\ perms[y.permission_id].code = c

\* The checks that have returned for a user and a code the tables grant.
C27_GrantedChecks ==
    {w \in Writers : /\ procs[w].pc = "idle" /\ procs[w].answer # "none"
                     /\ C27_Granted(procs[w].user, procs[w].code)}

\* No spurious deny, for every user.
C27_NoSpuriousDenyAnyUser == \A w \in C27_GrantedChecks : procs[w].answer = "allow"

\* C27: no spurious deny: if user u's persisted bindings grant code c during
\* the whole of a has_permission(u, c) call and no mutation is in flight, the
\* call returns true under every interleaving with cache-entry TTL expiry,
\* invalidate_user_permissions(u), other concurrent checks for u, and a
\* positive key that cannot be read as a set.  Stated for the users that do
\* not hold super_admin, whose checks work on the codes themselves.
C27_NoSpuriousDeny ==
    \A w \in C27_GrantedChecks :
        ~HoldsSuperAdmin(procs[w].user) => procs[w].answer = "allow"

\* The same with every key readable as a set: the deny is left.
C27_NoSpuriousDenyReadableKeys ==
    \A w \in C27_GrantedChecks :
        (~HoldsSuperAdmin(procs[w].user) /\ ~procs[w].unreadable) => procs[w].answer = "allow"

\* A check that found no key, or read the members of the key it found,
\* answers right.
C27_UndisturbedCheckAllows ==
    \A w \in C27_GrantedChecks :
        (~HoldsSuperAdmin(procs[w].user) /\ ~procs[w].lostKey) => procs[w].answer = "allow"

\* The roles user u is bound to that are in the table, active and not deleted.
C28_LiveRoles(u) ==
    {r \in DOMAIN roles :
        /\ IsAlive(roles[r]) /\ roles[r].is_active
        /\ \E x \in userRoles : x.user_id = u /\ x.role_id = r /\ ~x.is_deleted}

\* The codes of the active, not deleted permissions bound to these roles.
C28_LiveCodes(u) ==
    {perms[p].code :
        p \in {q \in DOMAIN perms :
                  /\ IsAlive(perms[q]) /\ perms[q].is_active
                  /\ \E y \in rolePerms : /\ y.permission_id = q /\ ~y.is_deleted
                                           /\ y.role_id \in C28_LiveRoles(u)}}

\* C28: the resolver grants only live capabilities: the set returned for a
\* user contains no code of a permission that is disabled or soft-deleted and
\* no code reached only through a role that is disabled or soft-deleted, and
\* the super_admin short-circuit applies only while the super_admin role
\* itself is active and not deleted.
C28_ResolverGrantsOnlyLive ==
    \A u \in UserIds :
        \A c \in load_user_permissions_from_db(u) :
            IF c = "__ALL__"
            THEN \E r \in C28_LiveRoles(u) : roles[r].code = "super_admin"
            ELSE c \in C28_LiveCodes(u)

\* What the resolver does leave out: the codes of soft-deleted permissions,
\* and the short-circuit through a soft-deleted super_admin role.
C28_ResolverSkipsSoftDeleted ==
    \A u \in UserIds :
        \A c \in load_user_permissions_from_db(u) :
            IF c = "__ALL__"
            THEN \E r \in DOMAIN roles : IsAlive(roles[r]) /\ roles[r].code = "super_admin"
            ELSE \E p \in DOMAIN perms : IsAlive(perms[p]) /\ perms[p].code = c

\* Each (role, permission) pair and each (user, role) pair has at most one
\* row, alive or soft-deleted.
C29_OneRowPerPair ==
    /\ \A x, y \in rolePerms :
          (x.role_id = y.role_id /\ x.permission_id = y.permission_id) => x = y
    /\ \A x, y \in userRoles : (x.user_id = y.user_id /\ x.role_id = y.role_id) => x = y

\* The (role, permission) half of it.
C29_OneRowPerRolePermissionPair ==
    \A x, y \in rolePerms :
        (x.role_id = y.role_id /\ x.permission_id = y.permission_id) => x = y

\* No unbind has failed on the unique constraint.
C29_UnbindNeverFails ==
    \A w \in Writers :
        procs[w].op \in {"unbind_permissions", "unbind_roles"}
            => procs[w].status # "integrity_error"

\* C29: in every reachable state, under every interleaving of concurrent bind
\* and unbind calls, each (role, permission) pair and each (user, role) pair
\* has at most one binding row, active or soft-deleted; hence unbinding an
\* active pair can always soft-delete its row without violating the
\* uniqueness constraint on (pair, is_deleted).
C29_AtMostOneRowPerPair == C29_OneRowPerPair /\ C29_UnbindNeverFails

\* C30: lockout counts every failure: with a fixed maximum M, once M
\* wrong-password logins for an unlocked user have completed since that
\* user's last successful login or last lock, the account is locked, in every
\* interleaving of concurrent login attempts (no failed attempt is lost from
\* the count).
C30_LockoutCountsEveryFailure ==
    \A u \in UserIds : lastOp.fails[u] < LoginMaxFailedAttempts

\* The counter column is never ahead of the failures that completed.
C30_CounterNeverAhead ==
    \A u \in UserIds : users[u].failed_attempts <= lastOp.fails[u]

====
